---- MODULE Spec2Model ----
(***************************************************************************)
(* A model of music-stream-api: the HTTP handlers of pkg/api (the version  *)
(* with bearer-token authentication), the storage client of pkg/dao and    *)
(* the auth validator of pkg/service.                                      *)
(*                                                                         *)
(* Text that the code inspects character by character (the Authorization   *)
(* header, error messages with an embedded number) is a sequence of        *)
(* one-character strings.  Text the code only compares with "" (track and  *)
(* playlist names) is a TLA+ string.                                       *)
(***************************************************************************)
EXTENDS Integers, Sequences, FiniteSets, TLC

VARIABLES
    db,              \* the document database: songs, playlists, fs.files, fs.chunks
    nextId,          \* the next value primitive.NewObjectID() / GridFS hands out
    loginServiceURL, \* ExternalHandler.LoginServiceURL (env LOGIN_URL)
    last,            \* the request handled last: its inputs and what the handler did
    server,          \* the process: the listener, main, the signal goroutine, the clock
    goroutines,      \* requests served step by step, each in its goroutine
    disk             \* video.mp4 and video.mp3 in the working directory

vars == <<db, nextId, loginServiceURL, last, server, goroutines, disk>>

(***************************************************************************)
(* Bounds of the model.                                                    *)
(***************************************************************************)
MaxTracks == 1
MaxUploads == 2
MaxPlaylists == 1
MaxChunks == 2
MaxFaults == 1
MaxPieces == 3
MaxLen == 2
MaxFormats == 3
MaxGoroutines == 2

(***************************************************************************)
(* Strings as character sequences.                                         *)
(***************************************************************************)
\* strings.Index(s, sep) as a 1-based position, 0 when sep does not occur
Index(s, sep) ==
    LET hits == {i \in 1..(Len(s) - Len(sep) + 1) : SubSeq(s, i, i + Len(sep) - 1) = sep}
    IN  IF hits = {} THEN 0 ELSE CHOOSE i \in hits : \A j \in hits : i <= j

\* strings.Split(s, sep) for a non-empty sep
RECURSIVE Split(_, _)
Split(s, sep) ==
    LET i == Index(s, sep)
    IN  IF i = 0 THEN <<s>>
        ELSE <<SubSeq(s, 1, i - 1)>> \o Split(SubSeq(s, i + Len(sep), Len(s)), sep)

\* fmt.Sprintf("%v", n) for n >= 0: the decimal digits of n
Digit(d) == CASE d = 0 -> "0" [] d = 1 -> "1" [] d = 2 -> "2" [] d = 3 -> "3"
              [] d = 4 -> "4" [] d = 5 -> "5" [] d = 6 -> "6" [] d = 7 -> "7"
              [] d = 8 -> "8" [] d = 9 -> "9"

RECURSIVE Itoa(_)
Itoa(n) == IF n < 10 THEN <<Digit(n)>> ELSE Itoa(n \div 10) \o <<Digit(n % 10)>>

(***************************************************************************)
(* Go errors: nil, or an error with its message.                           *)
(***************************************************************************)
NilErr == [isErr |-> FALSE, msg |-> <<>>]
Err(m) == [isErr |-> TRUE, msg |-> m]

BearerSp == <<"B","e","a","r","e","r"," ">>
MsgNoHeader == <<"n","o"," ","a","u","t","h","o","r","i","z","a","t","i","o","n"," ","h","e","a","d","e","r"," ","f","o","u","n","d">>
MsgBadHeader == <<"a","u","t","h","o","r","i","z","a","t","i","o","n"," ","h","e","a","d","e","r"," ","m","u","s","t"," ","b","e"," ","i","n"," ","f","o","r","m","a","t"," ","'","B","e","a","r","e","r","'"," ","<","t","o","k","e","n",">">>
MsgEmptyURL == <<"l","o","g","i","n"," ","s","e","r","v","i","c","e"," ","u","r","l"," ","c","a","n","n","o","t"," ","b","e"," ","e","m","t","p","y">>
MsgNon200 == <<"n","o","n","-","2","0","0"," ","s","t","a","t","u","s"," ","c","o","d","e"," ","r","e","c","e","i","v","e","d",":"," ">>
MsgTransport == <<"t","r","a","n","s","p","o","r","t">>
MsgStore == <<"s","t","o","r","e">>

StatusOK == 200
StatusBadRequest == 400
StatusUnauthorized == 401
StatusInternalServerError == 500

(***************************************************************************)
(* pkg/api: getAuthToken.                                                  *)
(***************************************************************************)
getAuthToken(tokenHeader) ==
    IF tokenHeader = <<>>
    THEN [token |-> <<>>, err |-> Err(MsgNoHeader)]
    ELSE IF \/ (Len(tokenHeader) >= 7 /\ SubSeq(tokenHeader, 1, 7) # BearerSp)
            \/ Len(Split(tokenHeader, <<" ">>)) # 2
         THEN [token |-> <<>>, err |-> Err(MsgBadHeader)]
         ELSE [token |-> Split(tokenHeader, <<" ">>)[2], err |-> NilErr]

(***************************************************************************)
(* pkg/service: ExternalHandler.ValidateToken.  resp is what the login     *)
(* service does with the one request: a transport error, or a status code. *)
(* calls counts the outbound requests issued.                              *)
(***************************************************************************)
\* http.NewRequest parses the URL and fails on a host that holds a space
MsgNewRequest == <<"p","a","r","s","e">>
NewRequestFails(url) == \E i \in 1..Len(url) : url[i] = " "

ValidateTokenNoCode(url, token, resp) ==
    IF url = <<>> THEN [err |-> Err(MsgEmptyURL), calls |-> 0]
    ELSE IF NewRequestFails(url) THEN [err |-> Err(MsgNewRequest), calls |-> 0]
    ELSE IF resp.transport THEN [err |-> Err(MsgTransport), calls |-> 1]
    ELSE IF resp.code # StatusOK
         THEN [err |-> Err(MsgNon200), calls |-> 1]
         ELSE [err |-> NilErr, calls |-> 1]

\* ValidateToken trying once more after a failed request
ValidateTokenRetries(url, token, resp) ==
    IF url = <<>> THEN [err |-> Err(MsgEmptyURL), calls |-> 0]
    ELSE IF NewRequestFails(url) THEN [err |-> Err(MsgNewRequest), calls |-> 0]
    ELSE IF resp.transport THEN [err |-> Err(MsgTransport), calls |-> 2]
    ELSE IF resp.code # StatusOK
         THEN [err |-> Err(MsgNon200 \o Itoa(resp.code)), calls |-> 2]
         ELSE [err |-> NilErr, calls |-> 1]

ValidateToken(url, token, resp) ==
    IF url = <<>> THEN [err |-> Err(MsgEmptyURL), calls |-> 0]
    ELSE IF NewRequestFails(url) THEN [err |-> Err(MsgNewRequest), calls |-> 0]
    ELSE IF resp.transport THEN [err |-> Err(MsgTransport), calls |-> 1]
    ELSE IF resp.code # StatusOK
         THEN [err |-> Err(MsgNon200 \o Itoa(resp.code)), calls |-> 1]
         ELSE [err |-> NilErr, calls |-> 1]

(***************************************************************************)
(* The document database.  db.songs and db.playlists map an _id to its     *)
(* document (so _id is unique in a collection), db.files is the set of     *)
(* _ids in fs.files and db.chunks the set of <<files_id, n>> in fs.chunks. *)
(* F is the set of driver calls that fail during the request at hand; a    *)
(* failed call returns the store's error and has no effect.                *)
(***************************************************************************)
MsgNoDocuments == <<"m","o","n","g","o",":"," ","n","o"," ","d","o","c","u","m","e","n","t","s"," ","i","n"," ","r","e","s","u","l","t">>
MsgNoneDeleted == <<"n","o"," ","d","o","c","u","m","e","n","t","s"," ","w","e","r","e"," ","d","e","l","e","t","e","d">>
MsgNoTracksInserted == <<"n","o"," ","t","r","a","c","k","s"," ","i","n","s","e","r","t","e","d">>
MsgNoPlaylistInserted == <<"n","o"," ","p","l","a","y","l","i","s","t"," ","i","n","s","e","r","t","e","d">>
MsgFileNotFound == <<"f","i","l","e"," ","w","i","t","h"," ","g","i","v","e","n"," ","p","a","r","a","m","e","t","e","r","s"," ","n","o","t"," ","f","o","u","n","d">>

EmptyDb == [songs |-> <<>>, playlists |-> <<>>, files |-> {}, chunks |-> {}]

Put(f, k, v) == [x \in (DOMAIN f) \cup {k} |-> IF x = k THEN v ELSE f[x]]
Remove(f, k) == [x \in (DOMAIN f) \ {k} |-> f[x]]
Contains(seq, v) == \E i \in 1..Len(seq) : seq[i] = v
Pull(seq, v) == SelectSeq(seq, LAMBDA x : x # v)

\* the documents of a collection in _id order, as a cursor returns them
RECURSIVE Docs(_, _)
Docs(coll, ids) ==
    IF ids = {} THEN <<>>
    ELSE LET m == CHOOSE i \in ids : \A j \in ids : i[2] <= j[2]
         IN  <<coll[m]>> \o Docs(coll, ids \ {m})

\* a query filter maps field names to the values they must equal
Matches(doc, filter) == \A k \in DOMAIN filter : k \in DOMAIN doc /\ doc[k] = filter[k]
Find(coll, filter) == Docs(coll, {i \in DOMAIN coll : Matches(coll[i], filter)})

\* ObjectIDs: the k-th id generated for a collection.  NilObjectID is the zero
\* value of primitive.ObjectID.
Oid(kind, k) == <<kind, k>>
NilObjectID == <<"nil", 0>>

ZeroTrack ==
    [ID |-> NilObjectID, Name |-> "", Artist |-> "", AlbumName |-> "",
     AudioFileID |-> NilObjectID]
ById(id) == [k \in {"ID"} |-> id]

(***************************************************************************)
(* pkg/dao: the storage client.  Every operation returns the database      *)
(* after it, its error, and the driver calls it made.                      *)
(***************************************************************************)
Call(name, ok) == [call |-> name, ok |-> ok]

GetTracks(d, F, filter) ==
    IF "songs.Find" \in F
    THEN [db |-> d, err |-> Err(MsgStore), results |-> <<>>,
          steps |-> <<Call("songs.Find", FALSE)>>]
    ELSE [db |-> d, err |-> NilErr, results |-> Find(d.songs, filter),
          steps |-> <<Call("songs.Find", TRUE)>>]

\* UploadStream.Close, deferred by UploadAudioFile: flushes the buffered
\* chunks, then writes the fs.files document; its error is only logged.
CloseUploadStream(d, F, fid, n) ==
    IF n > 0 /\ "fs.uploadChunks" \in F
    THEN [db |-> d, steps |-> <<Call("fs.uploadChunks", FALSE)>>]
    ELSE LET d1 == [d EXCEPT !.chunks = @ \cup {<<fid, k>> : k \in 1..n}]
             s1 == IF n > 0 THEN <<Call("fs.uploadChunks", TRUE)>> ELSE <<>>
         IN  IF "fs.createFilesCollDoc" \in F
             THEN [db |-> d1, steps |-> s1 \o <<Call("fs.createFilesCollDoc", FALSE)>>]
             ELSE [db |-> [d1 EXCEPT !.files = @ \cup {fid}],
                   steps |-> s1 \o <<Call("fs.createFilesCollDoc", TRUE)>>]

\* fid is the FileID OpenUploadStream generates, n the number of chunks the
\* audio bytes fill
UploadAudioFile(d, F, fid, n) ==
    IF "fs.NewBucket" \in F
    THEN [db |-> d, err |-> Err(MsgStore), FileID |-> NilObjectID,
          steps |-> <<Call("fs.NewBucket", FALSE)>>]
    ELSE IF "fs.OpenUploadStream" \in F
    THEN [db |-> d, err |-> Err(MsgStore), FileID |-> NilObjectID,
          steps |-> <<Call("fs.NewBucket", TRUE), Call("fs.OpenUploadStream", FALSE)>>]
    ELSE LET c == CloseUploadStream(d, F, fid, n)
             s == <<Call("fs.NewBucket", TRUE), Call("fs.OpenUploadStream", TRUE)>>
         IN  IF "fs.Write" \in F
             THEN [db |-> c.db, err |-> Err(MsgStore), FileID |-> NilObjectID,
                   steps |-> s \o <<Call("fs.Write", FALSE)>> \o c.steps]
             ELSE [db |-> c.db, err |-> NilErr, FileID |-> fid,
                   steps |-> s \o <<Call("fs.Write", TRUE)>> \o c.steps]

\* "<coll>.InsertOne.InsertedID" in F: InsertOne returns no error and a result
\* without an inserted id
AddTrack(d, F, track) ==
    IF "songs.InsertOne" \in F
    THEN [db |-> d, err |-> Err(MsgStore), steps |-> <<Call("songs.InsertOne", FALSE)>>]
    ELSE IF "songs.InsertOne.InsertedID" \in F
    THEN [db |-> d, err |-> Err(MsgNoTracksInserted),
          steps |-> <<Call("songs.InsertOne", TRUE)>>]
    ELSE [db |-> [d EXCEPT !.songs = Put(@, track.ID, track)], err |-> NilErr,
          steps |-> <<Call("songs.InsertOne", TRUE)>>]

DownloadAudioFile(d, F, audioFileID) ==
    IF "fs.NewBucket" \in F
    THEN [db |-> d, err |-> Err(MsgStore), steps |-> <<Call("fs.NewBucket", FALSE)>>]
    ELSE IF "fs.DownloadToStream" \in F
    THEN [db |-> d, err |-> Err(MsgStore),
          steps |-> <<Call("fs.NewBucket", TRUE), Call("fs.DownloadToStream", FALSE)>>]
    ELSE IF audioFileID \notin d.files
    THEN [db |-> d, err |-> Err(MsgFileNotFound),
          steps |-> <<Call("fs.NewBucket", TRUE), Call("fs.DownloadToStream", FALSE)>>]
    ELSE [db |-> d, err |-> NilErr,
          steps |-> <<Call("fs.NewBucket", TRUE), Call("fs.DownloadToStream", TRUE)>>]

\* the in-memory merge of UpdateTrack: only non-empty fields overwrite
\* MergeTrack taking the id and the audio reference of updatedTrack as well
MergeTrackWhole(track, updatedTrack) ==
    [track EXCEPT
        !.ID = IF updatedTrack.ID # NilObjectID THEN updatedTrack.ID ELSE @,
        !.Name = IF updatedTrack.Name # "" THEN updatedTrack.Name ELSE @,
        !.Artist = IF updatedTrack.Artist # "" THEN updatedTrack.Artist ELSE @,
        !.AlbumName = IF updatedTrack.AlbumName # "" THEN updatedTrack.AlbumName ELSE @,
        !.AudioFileID = IF updatedTrack.AudioFileID # NilObjectID
                        THEN updatedTrack.AudioFileID ELSE @]

MergeTrack(track, updatedTrack) ==
    [track EXCEPT
        !.Name = IF updatedTrack.Name # "" THEN updatedTrack.Name ELSE @,
        !.Artist = IF updatedTrack.Artist # "" THEN updatedTrack.Artist ELSE @,
        !.AlbumName = IF updatedTrack.AlbumName # "" THEN updatedTrack.AlbumName ELSE @]

UpdateTrack(d, F, id, updatedTrack) ==
    IF "songs.FindOne" \in F
    THEN [db |-> d, err |-> Err(MsgStore), steps |-> <<Call("songs.FindOne", FALSE)>>]
    ELSE IF id \notin DOMAIN d.songs
    THEN [db |-> d, err |-> Err(MsgNoDocuments), steps |-> <<Call("songs.FindOne", FALSE)>>]
    ELSE IF "songs.FindOneAndUpdate" \in F
    THEN [db |-> d, err |-> Err(MsgStore),
          steps |-> <<Call("songs.FindOne", TRUE), Call("songs.FindOneAndUpdate", FALSE)>>]
    ELSE [db |-> [d EXCEPT !.songs[id] = MergeTrack(d.songs[id], updatedTrack)],
          err |-> NilErr,
          steps |-> <<Call("songs.FindOne", TRUE), Call("songs.FindOneAndUpdate", TRUE)>>]

\* UpdateMany(playlists, {tracks: id}, {$pull: {tracks: id}})
PullFromPlaylists(playlists, id) ==
    [p \in DOMAIN playlists |-> [playlists[p] EXCEPT !.Tracks = Pull(@, id)]]

\* DeleteTrack without the DeleteMany on fs.chunks
DeleteTrackKeepsChunks(d, F, id) ==
    IF "songs.FindOneAndDelete" \in F \/ id \notin DOMAIN d.songs
    THEN [db |-> d, err |-> Err(MsgNoDocuments),
          steps |-> <<Call("songs.FindOneAndDelete", FALSE)>>]
    ELSE IF "files.DeleteOne" \in F
    THEN [db |-> [d EXCEPT !.songs = Remove(@, id)], err |-> Err(MsgStore),
          steps |-> <<Call("songs.FindOneAndDelete", TRUE), Call("files.DeleteOne", FALSE)>>]
    ELSE [db |-> [d EXCEPT !.songs = Remove(@, id),
                           !.files = @ \ {d.songs[id].AudioFileID},
                           !.playlists = PullFromPlaylists(@, id)],
          err |-> NilErr,
          steps |-> <<Call("songs.FindOneAndDelete", TRUE), Call("files.DeleteOne", TRUE),
                      Call("playlists.UpdateMany", TRUE)>>]

\* DeleteTrack as one transaction: a step that fails undoes the steps before it
DeleteTrackAtomic(d, F, id) ==
    LET r == DeleteTrackKeepsChunks(d, F \ {"files.DeleteOne"}, id)
        s1 == <<Call("songs.FindOneAndDelete", TRUE)>>
        s2 == s1 \o <<Call("files.DeleteOne", TRUE)>>
        s3 == s2 \o <<Call("chunks.DeleteMany", TRUE)>>
    IN  IF r.err.isErr THEN r
        ELSE IF "files.DeleteOne" \in F
        THEN [db |-> d, err |-> Err(MsgStore),
              steps |-> s1 \o <<Call("files.DeleteOne", FALSE)>>]
        ELSE IF "chunks.DeleteMany" \in F
        THEN [db |-> d, err |-> Err(MsgStore),
              steps |-> s2 \o <<Call("chunks.DeleteMany", FALSE)>>]
        ELSE IF "playlists.UpdateMany" \in F
        THEN [db |-> d, err |-> Err(MsgStore),
              steps |-> s3 \o <<Call("playlists.UpdateMany", FALSE)>>]
        ELSE [r EXCEPT !.db.chunks = {c \in @ : c[1] # d.songs[id].AudioFileID},
                       !.steps = s3 \o <<Call("playlists.UpdateMany", TRUE)>>]

DeleteTrack(d, F, id) ==
    IF "songs.FindOneAndDelete" \in F
    THEN [db |-> d, err |-> Err(MsgStore),
          steps |-> <<Call("songs.FindOneAndDelete", FALSE)>>]
    ELSE IF id \notin DOMAIN d.songs
    THEN [db |-> d, err |-> Err(MsgNoDocuments),
          steps |-> <<Call("songs.FindOneAndDelete", FALSE)>>]
    ELSE
    LET track == d.songs[id]
        d1 == [d EXCEPT !.songs = Remove(@, id)]
        s1 == <<Call("songs.FindOneAndDelete", TRUE)>>
    IN  IF "files.DeleteOne" \in F
        THEN [db |-> d1, err |-> Err(MsgStore),
              steps |-> s1 \o <<Call("files.DeleteOne", FALSE)>>]
        ELSE
        LET d2 == [d1 EXCEPT !.files = @ \ {track.AudioFileID}]
            s2 == s1 \o <<Call("files.DeleteOne", TRUE)>>
        IN  IF "chunks.DeleteMany" \in F
            THEN [db |-> d2, err |-> Err(MsgStore),
                  steps |-> s2 \o <<Call("chunks.DeleteMany", FALSE)>>]
            ELSE
            LET d3 == [d2 EXCEPT !.chunks = {c \in @ : c[1] # track.AudioFileID}]
                s3 == s2 \o <<Call("chunks.DeleteMany", TRUE)>>
            IN  IF "playlists.UpdateMany" \in F
                THEN [db |-> d3, err |-> NilErr,
                      steps |-> s3 \o <<Call("playlists.UpdateMany", FALSE)>>]
                ELSE [db |-> [d3 EXCEPT !.playlists = PullFromPlaylists(@, track.ID)],
                      err |-> NilErr,
                      steps |-> s3 \o <<Call("playlists.UpdateMany", TRUE)>>]

AddPlaylist(d, F, playlist) ==
    IF "playlists.InsertOne" \in F
    THEN [db |-> d, err |-> Err(MsgStore), steps |-> <<Call("playlists.InsertOne", FALSE)>>]
    ELSE IF "playlists.InsertOne.InsertedID" \in F
    THEN [db |-> d, err |-> Err(MsgNoPlaylistInserted),
          steps |-> <<Call("playlists.InsertOne", TRUE)>>]
    ELSE [db |-> [d EXCEPT !.playlists = Put(@, playlist.ID, playlist)], err |-> NilErr,
          steps |-> <<Call("playlists.InsertOne", TRUE)>>]

\* update is [op |-> "$push" or "$pull", tracks |-> a track id]
ApplyUpdate(playlist, update) ==
    IF update.op = "$push"
    THEN [playlist EXCEPT !.Tracks = Append(@, update.tracks)]
    ELSE [playlist EXCEPT !.Tracks = Pull(@, update.tracks)]

UpdatePlaylist(d, F, playlistId, update) ==
    IF "playlists.FindOneAndUpdate" \in F
    THEN [db |-> d, err |-> Err(MsgStore),
          steps |-> <<Call("playlists.FindOneAndUpdate", FALSE)>>]
    ELSE IF playlistId \notin DOMAIN d.playlists
    THEN [db |-> d, err |-> Err(MsgNoDocuments),
          steps |-> <<Call("playlists.FindOneAndUpdate", FALSE)>>]
    ELSE [db |-> [d EXCEPT !.playlists[playlistId] = ApplyUpdate(@, update)],
          err |-> NilErr, steps |-> <<Call("playlists.FindOneAndUpdate", TRUE)>>]

\* DeletePlaylist without the test of DeletedCount
DeletePlaylistAnyCount(d, F, id) ==
    IF "playlists.DeleteOne" \in F
    THEN [db |-> d, err |-> Err(MsgStore), steps |-> <<Call("playlists.DeleteOne", FALSE)>>]
    ELSE [db |-> [d EXCEPT !.playlists = Remove(@, id)], err |-> NilErr,
          steps |-> <<Call("playlists.DeleteOne", TRUE)>>]

DeletePlaylist(d, F, id) ==
    IF "playlists.DeleteOne" \in F
    THEN [db |-> d, err |-> Err(MsgStore), steps |-> <<Call("playlists.DeleteOne", FALSE)>>]
    ELSE IF id \notin DOMAIN d.playlists
    THEN [db |-> d, err |-> Err(MsgNoneDeleted),
          steps |-> <<Call("playlists.DeleteOne", TRUE)>>]
    ELSE [db |-> [d EXCEPT !.playlists = Remove(@, id)], err |-> NilErr,
          steps |-> <<Call("playlists.DeleteOne", TRUE)>>]

GetPlaylists(d, F, filter) ==
    IF "playlists.Find" \in F
    THEN [db |-> d, err |-> Err(MsgStore), results |-> <<>>,
          steps |-> <<Call("playlists.Find", FALSE)>>]
    ELSE [db |-> d, err |-> NilErr, results |-> Find(d.playlists, filter),
          steps |-> <<Call("playlists.Find", TRUE)>>]

Ping(d, F) ==
    IF "Ping" \in F
    THEN [db |-> d, err |-> Err(MsgStore), steps |-> <<Call("Ping", FALSE)>>]
    ELSE [db |-> d, err |-> NilErr, steps |-> <<Call("Ping", TRUE)>>]

(***************************************************************************)
(* pkg/api: what a handler leaves behind.  writes are the responses it     *)
(* wrote, in order (net/http sends the first status); ops are the storage, *)
(* media and file operations it invoked, steps the driver calls under      *)
(* them; added is the track it passed to AddTrack.                         *)
(***************************************************************************)
MsgAuthFailed == <<"A","u","t","h","e","n","t","i","c","a","t","i","o","n"," ","f","a","i","l","e","d">>
MsgBadHex == <<"b","a","d"," ","h","e","x">>
MsgBadBody == <<"b","a","d"," ","b","o","d","y">>
MsgBadForm == <<"b","a","d"," ","f","o","r","m">>
MsgExternal == <<"e","x","t","e","r","n","a","l">>

respondWithError(code, message) ==
    [code |-> code, body |-> IF message = <<>> THEN "none" ELSE "error", message |-> message]
respondWithSuccess(code) == [code |-> code, body |-> "success", message |-> <<>>]
respondWithSuccessBytes(code) == [code |-> code, body |-> "bytes", message |-> <<>>]

Op(name, r) == [name |-> name, ok |-> ~r.err.isErr]

Done(d, writes, ops, steps, added) ==
    [db |-> d, writes |-> writes, ops |-> ops, steps |-> steps,
     added |-> added, panicked |-> FALSE]
\* a runtime panic: net/http recovers it and drops the connection
Panic(d, writes, ops, steps, added) ==
    [db |-> d, writes |-> writes, ops |-> ops, steps |-> steps,
     added |-> added, panicked |-> TRUE]

\* primitive.ObjectIDFromHex on a path variable
ObjectIDFromHex(v) ==
    IF v.wellFormed THEN [id |-> v.oid, err |-> NilErr]
    ELSE [id |-> NilObjectID, err |-> Err(MsgBadHex)]

(***************************************************************************)
(* The prologue of every handler but checkHealth: getAuthToken, then       *)
(* ValidateToken.                                                          *)
(***************************************************************************)
AuthenticateNoReturn(url, header, resp) ==
    LET t == getAuthToken(header)
        v == ValidateToken(url, t.token, resp)
    IN  IF t.err.isErr
        THEN [ok |-> TRUE, writes |-> <<respondWithError(StatusBadRequest, t.err.msg)>>,
              tokenErr |-> t.err, validateErr |-> NilErr, validateCalls |-> 0, outbound |-> 0]
        ELSE IF v.err.isErr
        THEN [ok |-> TRUE, writes |-> <<respondWithError(StatusUnauthorized, MsgAuthFailed)>>,
              tokenErr |-> NilErr, validateErr |-> v.err, validateCalls |-> 1,
              outbound |-> v.calls]
        ELSE [ok |-> TRUE, writes |-> <<>>, tokenErr |-> NilErr, validateErr |-> NilErr,
              validateCalls |-> 1, outbound |-> v.calls]

AuthenticateSwapped(url, header, resp) ==
    LET t == getAuthToken(header)
        v == ValidateToken(url, t.token, resp)
    IN  IF t.err.isErr
        THEN [ok |-> FALSE, writes |-> <<respondWithError(StatusUnauthorized, t.err.msg)>>,
              tokenErr |-> t.err, validateErr |-> NilErr, validateCalls |-> 0, outbound |-> 0]
        ELSE IF v.err.isErr
        THEN [ok |-> FALSE, writes |-> <<respondWithError(StatusBadRequest, MsgAuthFailed)>>,
              tokenErr |-> NilErr, validateErr |-> v.err, validateCalls |-> 1,
              outbound |-> v.calls]
        ELSE [ok |-> TRUE, writes |-> <<>>, tokenErr |-> NilErr, validateErr |-> NilErr,
              validateCalls |-> 1, outbound |-> v.calls]

Authenticate(url, header, resp) ==
    LET t == getAuthToken(header)
        v == ValidateToken(url, t.token, resp)
    IN  IF t.err.isErr
        THEN [ok |-> FALSE, writes |-> <<respondWithError(StatusBadRequest, t.err.msg)>>,
              tokenErr |-> t.err, validateErr |-> NilErr, validateCalls |-> 0, outbound |-> 0]
        ELSE IF v.err.isErr
        THEN [ok |-> FALSE, writes |-> <<respondWithError(StatusUnauthorized, MsgAuthFailed)>>,
              tokenErr |-> NilErr, validateErr |-> v.err, validateCalls |-> 1,
              outbound |-> v.calls]
        ELSE [ok |-> TRUE, writes |-> <<>>, tokenErr |-> NilErr, validateErr |-> NilErr,
              validateCalls |-> 1, outbound |-> v.calls]

(***************************************************************************)
(* Track handlers.  in is the request: header, path variables id and tid,  *)
(* form, body, the number n of chunks the audio bytes fill, and the        *)
(* environment's part in it: resp (the login service) and F (the calls     *)
(* that fail).                                                             *)
(***************************************************************************)
WithDefaultsNone(track) == track

WithDefaults(track) ==
    [track EXCEPT
        !.Name = IF @ = "" THEN "Unknown" ELSE @,
        !.Artist = IF @ = "" THEN "Unknown Artist" ELSE @,
        !.AlbumName = IF @ = "" THEN "Unknown Album" ELSE @]

\* the tail shared by the three track-creating handlers: UploadAudioFile,
\* then AddTrack.  nid.f numbers the FileID OpenUploadStream generates.
storeTrack(d, F, nid, track, n, w0, o0) ==
    LET u == UploadAudioFile(d, F, Oid("f", nid.f), n)
        o1 == o0 \o <<Op("UploadAudioFile", u)>>
    IN  IF u.err.isErr
        THEN Done(u.db, w0 \o <<respondWithError(StatusInternalServerError, u.err.msg)>>,
                  o1, u.steps, ZeroTrack)
        ELSE
        LET t1 == [track EXCEPT !.AudioFileID = u.FileID]
            a == AddTrack(u.db, F, t1)
            o2 == o1 \o <<Op("AddTrack", a)>>
        IN  IF a.err.isErr
            THEN Done(a.db, w0 \o <<respondWithError(StatusInternalServerError, a.err.msg)>>,
                      o2, u.steps \o a.steps, t1)
            ELSE Done(a.db, w0 \o <<respondWithSuccess(StatusOK)>>,
                      o2, u.steps \o a.steps, t1)

uploadTrack(d, nid, in) ==
    IF in.form = "parseError"
    THEN Done(d, <<respondWithError(StatusBadRequest, MsgBadForm)>>, <<>>, <<>>, ZeroTrack)
    ELSE IF in.form = "noFile"
    THEN Done(d, <<respondWithError(StatusBadRequest, MsgBadForm)>>, <<>>, <<>>, ZeroTrack)
    ELSE IF in.form = "readError"
    THEN Done(d, <<respondWithError(StatusInternalServerError, MsgBadForm)>>,
              <<>>, <<>>, ZeroTrack)
    ELSE
    \* a body that does not decode is answered 400, and the handler goes on
    LET w0 == IF in.body.ok THEN <<>> ELSE <<respondWithError(StatusBadRequest, MsgBadBody)>>
        track == WithDefaults([in.body.track EXCEPT !.ID = Oid("t", nid.t)])
    IN  storeTrack(d, in.F, nid, track, in.n, w0, <<>>)

uploadAudioBytes(d, nid, in) ==
    IF ~in.body.ok
    THEN Done(d, <<respondWithError(StatusBadRequest, MsgBadBody)>>, <<>>, <<>>, ZeroTrack)
    ELSE
    LET track == WithDefaults([ID |-> Oid("t", nid.t), Name |-> in.body.track.Name,
                               Artist |-> in.body.track.Artist,
                               AlbumName |-> in.body.track.AlbumName,
                               AudioFileID |-> NilObjectID])
    IN  storeTrack(d, in.F, nid, track, in.n, <<>>, <<>>)

getTrackAudio(d, nid, in) ==
    LET o == ObjectIDFromHex(in.id)
        g == GetTracks(d, in.F, ById(o.id))
        og == <<Op("GetTracks", g)>>
    IN  IF o.err.isErr
        THEN Done(d, <<respondWithError(StatusBadRequest, o.err.msg)>>, <<>>, <<>>, ZeroTrack)
        ELSE IF g.err.isErr
        THEN Done(d, <<respondWithError(StatusInternalServerError, g.err.msg)>>,
                  og, g.steps, ZeroTrack)
        ELSE IF Len(g.results) = 0
        THEN Panic(d, <<>>, og, g.steps, ZeroTrack)
        ELSE
        LET a == DownloadAudioFile(d, in.F, g.results[1].AudioFileID)
            oa == og \o <<Op("DownloadAudioFile", a)>>
            \* io.Copy(w, reader): the first Write sends the status 200
            oc == oa \o <<[name |-> "io.Copy(w)", ok |-> "io.Copy(w)" \notin in.F]>>
        IN  IF a.err.isErr
            THEN Done(d, <<respondWithError(StatusInternalServerError, a.err.msg)>>,
                      oa, g.steps \o a.steps, ZeroTrack)
            ELSE IF "io.Copy(w)" \in in.F
            THEN Done(d, <<respondWithSuccessBytes(StatusOK),
                           respondWithError(StatusInternalServerError, MsgExternal)>>,
                      oc, g.steps \o a.steps, ZeroTrack)
            ELSE Done(d, <<respondWithSuccessBytes(StatusOK)>>, oc, g.steps \o a.steps,
                      ZeroTrack)

updateTrack(d, nid, in) ==
    LET o == ObjectIDFromHex(in.id)
        updatedTrack == WithDefaults(in.body.track)
        u == UpdateTrack(d, in.F, o.id, updatedTrack)
    IN  IF o.err.isErr
        THEN Done(d, <<respondWithError(StatusBadRequest, o.err.msg)>>, <<>>, <<>>, ZeroTrack)
        ELSE IF ~in.body.ok
        THEN Done(d, <<respondWithError(StatusBadRequest, MsgBadBody)>>, <<>>, <<>>, ZeroTrack)
        ELSE IF u.err.isErr
        THEN Done(u.db, <<respondWithError(StatusInternalServerError, u.err.msg)>>,
                  <<Op("UpdateTrack", u)>>, u.steps, ZeroTrack)
        ELSE Done(u.db, <<respondWithSuccess(StatusOK)>>, <<Op("UpdateTrack", u)>>,
                  u.steps, ZeroTrack)

\* deleteTrack answering 200 whatever DeleteTrack returns
deleteTrackAnswers200(d, nid, in) ==
    LET o == ObjectIDFromHex(in.id)
        r == DeleteTrack(d, in.F, o.id)
    IN  IF o.err.isErr
        THEN Done(d, <<respondWithError(StatusBadRequest, o.err.msg)>>, <<>>, <<>>, ZeroTrack)
        ELSE Done(r.db, <<respondWithSuccess(StatusOK)>>, <<Op("DeleteTrack", r)>>,
                  r.steps, ZeroTrack)

deleteTrack(d, nid, in) ==
    LET o == ObjectIDFromHex(in.id)
        r == DeleteTrack(d, in.F, o.id)
    IN  IF o.err.isErr
        THEN Done(d, <<respondWithError(StatusBadRequest, o.err.msg)>>, <<>>, <<>>, ZeroTrack)
        ELSE IF r.err.isErr
        THEN Done(r.db, <<respondWithError(StatusInternalServerError, r.err.msg)>>,
                  <<Op("DeleteTrack", r)>>, r.steps, ZeroTrack)
        ELSE Done(r.db, <<respondWithSuccess(StatusOK)>>, <<Op("DeleteTrack", r)>>,
                  r.steps, ZeroTrack)

getTracks(d, nid, in) ==
    LET g == GetTracks(d, in.F, in.query)
    IN  IF in.form = "parseError"
        THEN Done(d, <<respondWithError(StatusBadRequest, MsgBadForm)>>, <<>>, <<>>, ZeroTrack)
        ELSE IF g.err.isErr
        THEN Done(d, <<respondWithError(StatusInternalServerError, g.err.msg)>>,
                  <<Op("GetTracks", g)>>, g.steps, ZeroTrack)
        ELSE Done(d, <<respondWithSuccess(StatusOK)>>, <<Op("GetTracks", g)>>, g.steps,
                  ZeroTrack)

(***************************************************************************)
(* Playlist handlers.  in.pbody is the decoded request body of POST        *)
(* /playlist.                                                              *)
(***************************************************************************)
addPlaylist(d, nid, in) ==
    LET playlist == [ID |-> Oid("p", nid.p), Name |-> in.pbody.Name, Tracks |-> in.pbody.Tracks]
        a == AddPlaylist(d, in.F, playlist)
    IN  IF ~in.pbody.ok
        THEN Done(d, <<respondWithError(StatusBadRequest, MsgBadBody)>>, <<>>, <<>>, ZeroTrack)
        ELSE IF a.err.isErr
        THEN Done(a.db, <<respondWithError(StatusInternalServerError, a.err.msg)>>,
                  <<Op("AddPlaylist", a)>>, a.steps, ZeroTrack)
        ELSE Done(a.db, <<respondWithSuccess(StatusOK)>>, <<Op("AddPlaylist", a)>>,
                  a.steps, ZeroTrack)

\* addTrackToPlaylist and removeTrackFromPlaylist differ in the update only
changePlaylist(d, nid, in, op) ==
    LET pid == ObjectIDFromHex(in.id)
        tid == ObjectIDFromHex(in.tid)
        g == GetTracks(d, in.F, ById(tid.id))
        og == <<Op("GetTracks", g)>>
        u == UpdatePlaylist(d, in.F, pid.id, [op |-> op, tracks |-> tid.id])
        ou == og \o <<Op("UpdatePlaylist", u)>>
    IN  IF pid.err.isErr
        THEN Done(d, <<respondWithError(StatusBadRequest, pid.err.msg)>>, <<>>, <<>>, ZeroTrack)
        ELSE IF tid.err.isErr
        THEN Done(d, <<respondWithError(StatusBadRequest, tid.err.msg)>>, <<>>, <<>>, ZeroTrack)
        ELSE IF g.err.isErr
        THEN Done(d, <<respondWithError(StatusInternalServerError, g.err.msg)>>,
                  og, g.steps, ZeroTrack)
        ELSE IF u.err.isErr
        THEN Done(u.db, <<respondWithError(StatusInternalServerError, u.err.msg)>>,
                  ou, g.steps \o u.steps, ZeroTrack)
        ELSE Done(u.db, <<respondWithSuccess(StatusOK)>>, ou, g.steps \o u.steps, ZeroTrack)

addTrackToPlaylist(d, nid, in) == changePlaylist(d, nid, in, "$push")

removeTrackFromPlaylist(d, nid, in) == changePlaylist(d, nid, in, "$pull")

deletePlaylist(d, nid, in) ==
    LET o == ObjectIDFromHex(in.id)
        r == DeletePlaylist(d, in.F, o.id)
    IN  IF o.err.isErr
        THEN Done(d, <<respondWithError(StatusBadRequest, o.err.msg)>>, <<>>, <<>>, ZeroTrack)
        ELSE IF r.err.isErr
        THEN Done(r.db, <<respondWithError(StatusInternalServerError, r.err.msg)>>,
                  <<Op("DeletePlaylist", r)>>, r.steps, ZeroTrack)
        ELSE Done(r.db, <<respondWithSuccess(StatusOK)>>, <<Op("DeletePlaylist", r)>>,
                  r.steps, ZeroTrack)

getPlaylists(d, nid, in) ==
    LET g == GetPlaylists(d, in.F, in.query)
    IN  IF in.form = "parseError"
        THEN Done(d, <<respondWithError(StatusBadRequest, MsgBadForm)>>, <<>>, <<>>, ZeroTrack)
        ELSE IF g.err.isErr
        THEN Done(d, <<respondWithError(StatusInternalServerError, g.err.msg)>>,
                  <<Op("GetPlaylists", g)>>, g.steps, ZeroTrack)
        ELSE Done(d, <<respondWithSuccess(StatusOK)>>, <<Op("GetPlaylists", g)>>, g.steps,
                  ZeroTrack)

checkHealth(d, nid, in) ==
    LET r == Ping(d, in.F)
    IN  IF r.err.isErr
        THEN Done(d, <<respondWithError(StatusInternalServerError, MsgStore)>>,
                  <<Op("Ping", r)>>, r.steps, ZeroTrack)
        ELSE Done(d, <<respondWithSuccess(StatusOK)>>, <<Op("Ping", r)>>, r.steps, ZeroTrack)

(***************************************************************************)
(* Media handlers.  The video platform, the file system and the converter  *)
(* are external: a call named in in.F fails.  in.link is the video link,   *)
(* in.formats the MIME types of the video's stream formats.                *)
(***************************************************************************)
AudioMp4 == <<"a","u","d","i","o","/","m","p","4">>
VEq == <<"v","=">>
Amp == <<"&">>

\* ops of an external call: the call, with whether it succeeded
Ext(name, F) == [name |-> name, ok |-> name \notin F]

\* ops of an external call that is handed an argument
ExtArg(name, F, arg) == [name |-> name, ok |-> name \notin F, arg |-> arg]

\* strings.Split(strings.Split(link, "v=")[1], "&")[0], for a link with "v="
videoId(link) == Split(Split(link, VEq)[2], Amp)[1]

\* the range loop without its break: the last match is kept
RECURSIVE LastAudio(_, _)
LastAudio(formats, i) ==
    IF i > Len(formats) THEN 0
    ELSE LET rest == LastAudio(formats, i + 1)
         IN  IF rest # 0 THEN rest
             ELSE IF Index(formats[i], AudioMp4) # 0 THEN i - 1 ELSE 0

formatIndexNoBreak(formats) == LastAudio(formats, 1)

\* the range loop choosing the stream format, as a 0-based index
RECURSIVE FirstAudio(_, _)
FirstAudio(formats, i) ==
    IF i > Len(formats) THEN 0
    ELSE IF Index(formats[i], AudioMp4) # 0 THEN i - 1
    ELSE FirstAudio(formats, i + 1)

formatIndex(formats) == FirstAudio(formats, 1)

\* the stream fetch: the format choice, GetStream, the temp file, the copy
fetchStream(d, nid, in, o0) ==
    LET o1 == o0 \o <<ExtArg("GetStream", in.F, formatIndex(in.formats))>>
        o2 == o1 \o <<Ext("os.Create", in.F)>>
        o3 == o2 \o <<Ext("io.Copy", in.F)>>
    IN  IF Len(in.formats) = 0
        THEN Panic(d, <<>>, o0, <<>>, ZeroTrack)
        ELSE IF "GetStream" \in in.F
        THEN Done(d, <<respondWithError(StatusInternalServerError, MsgExternal)>>,
                  o1, <<>>, ZeroTrack)
        ELSE IF "os.Create" \in in.F
        THEN Done(d, <<respondWithError(StatusInternalServerError, MsgExternal)>>,
                  o2, <<>>, ZeroTrack)
        ELSE IF "io.Copy" \in in.F
        THEN Done(d, <<respondWithError(StatusInternalServerError, MsgExternal)>>,
                  o3, <<>>, ZeroTrack)
        ELSE Done(d, <<>>, o3, <<>>, ZeroTrack)

\* LookPath, the converter run, the read of video.mp3 and the two removals
convert(d, nid, in, o0) ==
    LET o1 == o0 \o <<Ext("exec.LookPath", in.F)>>
        o2 == o1 \o <<Ext("cmd.Run", in.F)>>
        o3 == o2 \o <<Ext("ioutil.ReadFile", in.F)>>
        o4 == o3 \o <<Ext("os.Remove(video.mp4)", in.F), Ext("os.Remove(video.mp3)", in.F)>>
    IN  IF "exec.LookPath" \in in.F
        THEN Done(d, <<respondWithError(StatusInternalServerError, MsgExternal)>>,
                  o1, <<>>, ZeroTrack)
        ELSE IF "cmd.Run" \in in.F
        THEN Done(d, <<respondWithError(StatusInternalServerError, MsgExternal)>>,
                  o2, <<>>, ZeroTrack)
        ELSE IF "ioutil.ReadFile" \in in.F
        THEN Done(d, <<respondWithError(StatusInternalServerError, MsgExternal)>>,
                  o3, <<>>, ZeroTrack)
        ELSE Done(d, <<>>, o4, <<>>, ZeroTrack)

getVideo(d, nid, in) ==
    LET parts == Split(in.link, VEq)
        o1 == <<ExtArg("GetVideo", in.F, videoId(in.link))>>
    IN  IF ~in.body.ok
        THEN Done(d, <<respondWithError(StatusBadRequest, MsgBadBody)>>, <<>>, <<>>, ZeroTrack)
        ELSE IF Len(parts) < 2
        THEN Panic(d, <<>>, <<>>, <<>>, ZeroTrack)
        ELSE IF "GetVideo" \in in.F
        THEN Done(d, <<respondWithError(StatusInternalServerError, MsgExternal)>>,
                  o1, <<>>, ZeroTrack)
        ELSE Done(d, <<respondWithSuccess(StatusOK)>>, o1, <<>>, ZeroTrack)

getStream(d, nid, in) ==
    LET f == fetchStream(d, nid, in, <<>>)
    IN  IF ~in.body.ok
        THEN Done(d, <<respondWithError(StatusBadRequest, MsgBadBody)>>, <<>>, <<>>, ZeroTrack)
        ELSE IF f.panicked \/ f.writes # <<>> THEN f
        ELSE [f EXCEPT !.writes = <<respondWithSuccess(StatusOK)>>]

convertStreamToAudio(d, nid, in) ==
    LET c == convert(d, nid, in, <<>>)
    IN  IF c.writes # <<>> THEN c
        ELSE [c EXCEPT !.writes = <<respondWithSuccessBytes(StatusOK)>>]

uploadTrackFromYoutubeLink(d, nid, in) ==
    LET parts == Split(in.link, VEq)
        o1 == <<ExtArg("GetVideo", in.F, videoId(in.link))>>
        f == fetchStream(d, nid, in, o1)
        c == convert(d, nid, in, f.ops)
        track == WithDefaults([ID |-> Oid("t", nid.t), Name |-> in.body.track.Name,
                               Artist |-> in.body.track.Artist,
                               AlbumName |-> in.body.track.AlbumName,
                               AudioFileID |-> NilObjectID])
    IN  IF ~in.body.ok
        THEN Done(d, <<respondWithError(StatusBadRequest, MsgBadBody)>>, <<>>, <<>>, ZeroTrack)
        ELSE IF Len(parts) < 2
        THEN Panic(d, <<>>, <<>>, <<>>, ZeroTrack)
        ELSE IF "GetVideo" \in in.F
        THEN Done(d, <<respondWithError(StatusInternalServerError, MsgExternal)>>,
                  o1, <<>>, ZeroTrack)
        ELSE IF f.panicked \/ f.writes # <<>> THEN f
        ELSE IF c.writes # <<>> THEN c
        ELSE storeTrack(d, in.F, nid, track, in.n, <<>>, c.ops)

(***************************************************************************)
(* Requests.  The environment chooses the request and, where the handler   *)
(* gets that far, the login service's answer and the calls that fail.      *)
(***************************************************************************)
BearerTok == <<"B","e","a","r","e","r"," ","t","o","k">>
BasicAbc == <<"B","a","s","i","c"," ","a","b","c">>
LoginHost == <<"l","o","g","i","n">>
BadHost == <<"a"," ","b">>

RespOK == [transport |-> FALSE, code |-> 200]
Resps == {RespOK, [transport |-> FALSE, code |-> 401], [transport |-> TRUE, code |-> 0]}
Headers == {<<>>, BearerTok, BasicAbc}

\* a path variable: a string that is no ObjectID, an id no collection ever
\* held (number 0), or one of the ids generated so far
NoId == [wellFormed |-> FALSE, oid |-> NilObjectID]
PathIds(kind, next) == {NoId} \cup {[wellFormed |-> TRUE, oid |-> Oid(kind, k)] : k \in 0..(next - 1)}

Names == {"", "n"}
Artists == {"", "a"}
Albums == {"", "b"}
BodyTrack(n, a, b) ==
    [ID |-> NilObjectID, Name |-> n, Artist |-> a, AlbumName |-> b, AudioFileID |-> NilObjectID]
\* a body that fails to decode leaves the fields decoded before the error
BadBodies == {[ok |-> FALSE, track |-> ZeroTrack],
              [ok |-> FALSE, track |-> BodyTrack("n", "", "")]}
Bodies == {[ok |-> TRUE, track |-> BodyTrack(n, a, b)] : n \in Names, a \in Artists, b \in Albums}
            \cup BadBodies
FewBodies == {[ok |-> TRUE, track |-> ZeroTrack], [ok |-> TRUE, track |-> BodyTrack("n", "a", "b")],
              [ok |-> FALSE, track |-> ZeroTrack]}
PlaylistBodies == {[ok |-> TRUE, Name |-> "p", Tracks |-> <<>>],
                   [ok |-> TRUE, Name |-> "p", Tracks |-> <<Oid("t", 0)>>],
                   [ok |-> FALSE, Name |-> "", Tracks |-> <<>>]}
Queries == {<<>>, [k \in {"Name"} |-> "n"]}
LinkWithV == <<"w","a","t","c","h","?","v","=","a","b","&","t","=","1">>
LinkWithoutV == <<"y","o","u","t","u",".","b","e","/","a","b">>
SomeFormats == <<<<"v","i","d","e","o","/","m","p","4">>, <<"a","u","d","i","o","/","m","p","4">>>>

\* the sets of at most k failing calls among points
RECURSIVE FaultSets(_, _)
FaultSets(points, k) ==
    IF k = 0 THEN {{}}
    ELSE LET S == FaultSets(points, k - 1)
         IN  S \cup {F \cup {p} : F \in S, p \in points}
Faults(points) == FaultSets(points, MaxFaults)

UploadPoints == {"fs.NewBucket", "fs.OpenUploadStream", "fs.Write", "fs.uploadChunks",
                 "fs.createFilesCollDoc", "songs.InsertOne", "songs.InsertOne.InsertedID"}
FetchPoints == {"GetStream", "os.Create", "io.Copy"}
ConvertPoints == {"exec.LookPath", "cmd.Run", "ioutil.ReadFile"}
RemovePoints == {"os.Remove(video.mp4)", "os.Remove(video.mp3)"}

DefaultIn ==
    [header |-> <<>>, resp |-> RespOK, F |-> {}, id |-> NoId, tid |-> NoId, form |-> "ok",
     body |-> [ok |-> TRUE, track |-> ZeroTrack], n |-> 0,
     pbody |-> [ok |-> TRUE, Name |-> "", Tracks |-> <<>>], query |-> <<>>,
     link |-> <<>>, formats |-> <<>>]

\* the header and the login service's answer
AuthCases == {[DefaultIn EXCEPT !.header = h, !.resp = r] : h \in Headers, r \in Resps}
Asked(in) ==
    /\ ~getAuthToken(in.header).err.isErr
    /\ loginServiceURL # <<>> /\ ~NewRequestFails(loginServiceURL)
Passes(in) == Authenticate(loginServiceURL, in.header, in.resp).ok

\* the media part of POST /youtube/track fails, or passes and a track with a
\* body of B is stored
YoutubeInputs(B) ==
    LET early == {"GetVideo"} \cup FetchPoints \cup ConvertPoints
        ok == [DefaultIn EXCEPT !.link = LinkWithV, !.formats = SomeFormats]
    IN  {[ok EXCEPT !.body = b] : b \in BadBodies}
          \cup {[ok EXCEPT !.link = LinkWithoutV], [ok EXCEPT !.formats = <<>>]}
          \cup {[ok EXCEPT !.F = F] :
                  F \in {G \in Faults(early \cup RemovePoints \cup UploadPoints) :
                           G \cap early # {}}}
          \cup {[ok EXCEPT !.body = b, !.n = n, !.F = F] :
                  b \in {x \in B : x.ok}, n \in 0..MaxChunks,
                  F \in Faults(RemovePoints \cup UploadPoints)}

(***************************************************************************)
(* The state: object ids generated so far, and the request in hand.        *)
(***************************************************************************)
Max(a, b) == IF a >= b THEN a ELSE b
Top(ids, kind) ==
    LET ks == {i[2] : i \in {j \in ids : j[1] = kind}}
    IN  IF ks = {} THEN 0 ELSE CHOOSE k \in ks : \A l \in ks : l <= k

\* NewObjectID never returns an id twice.  An id the handler dropped before
\* it reached the database is as good as never generated.
Advance(nid, d) ==
    [t |-> Max(nid.t, 1 + Top(DOMAIN d.songs, "t")),
     f |-> Max(nid.f, 1 + Top(d.files \cup {c[1] : c \in d.chunks}
                                \cup {d.songs[i].AudioFileID : i \in DOMAIN d.songs}, "f")),
     p |-> Max(nid.p, 1 + Top(DOMAIN d.playlists, "p"))]

NoRequest ==
    [ep |-> "none", in |-> DefaultIn, before |-> EmptyDb, tokenErr |-> NilErr, validateErr |-> NilErr,
     validateCalls |-> 0, outbound |-> 0, writes |-> <<>>, ops |-> <<>>, steps |-> <<>>,
     added |-> ZeroTrack, panicked |-> FALSE]

\* the status net/http sends: that of the first write (0: none was written)
Status(r) == IF r.writes = <<>> THEN 0 ELSE r.writes[1].code

(***************************************************************************)
(* One request, served from its first line to its last.                    *)
(***************************************************************************)
\* the server is between two requests
Idle == last = NoRequest

\* the listener of http.Server is open and the process is alive
Accepting == server.listening /\ ~server.exited

\* handled is what the body of the handler does once the prologue has passed
Handle(ep, in, handled) ==
    LET a == Authenticate(loginServiceURL, in.header, in.resp)
        h == IF a.ok THEN handled ELSE Done(db, <<>>, <<>>, <<>>, ZeroTrack)
    IN  /\ Accepting
        /\ db' = h.db
        /\ nextId' = Advance(nextId, h.db)
        /\ last' = [ep |-> ep, in |-> in, before |-> db, tokenErr |-> a.tokenErr,
                    validateErr |-> a.validateErr, validateCalls |-> a.validateCalls,
                    outbound |-> a.outbound, writes |-> a.writes \o h.writes,
                    ops |-> h.ops, steps |-> h.steps, added |-> h.added,
                    panicked |-> h.panicked]
        /\ UNCHANGED <<loginServiceURL, server, goroutines, disk>>

\* the requests to an endpoint: one that the prologue turns away carries
\* nothing else, and the login service answers only when asked
Requests(A, S) ==
    {a \in A : ~Passes(a) /\ (Asked(a) \/ a.resp = RespOK)}
      \cup {[in EXCEPT !.header = a.header, !.resp = a.resp] :
              a \in {x \in A : Passes(x)}, in \in S}

\* fewer than k tracks and fewer than k audio files were stored so far
CanUpload(k) == nextId.t <= k /\ nextId.f <= k

UploadTrack(B, k) ==
    /\ Idle /\ CanUpload(k)
    /\ \E in \in Requests(AuthCases,
               {[DefaultIn EXCEPT !.form = f] : f \in {"parseError", "noFile", "readError"}}
                 \cup {[DefaultIn EXCEPT !.body = b, !.n = n, !.F = F] :
                         b \in B, n \in 0..MaxChunks, F \in Faults(UploadPoints)}) :
           Handle("uploadTrack", in, uploadTrack(db, nextId, in))

UploadAudioBytes(B, k) ==
    /\ Idle /\ CanUpload(k)
    /\ \E in \in Requests(AuthCases,
               {[DefaultIn EXCEPT !.body = b, !.n = n, !.F = F] :
                  b \in B, n \in 0..MaxChunks, F \in Faults(UploadPoints)}) :
           Handle("uploadAudioBytes", in, uploadAudioBytes(db, nextId, in))

UploadTrackFromYoutubeLink(B, k) ==
    /\ Idle /\ CanUpload(k)
    /\ \E in \in Requests(AuthCases, YoutubeInputs(B)) :
           Handle("uploadTrackFromYoutubeLink", in, uploadTrackFromYoutubeLink(db, nextId, in))

GetTrackAudio ==
    /\ Idle
    /\ \E in \in Requests(AuthCases,
               {[DefaultIn EXCEPT !.id = i, !.F = F] :
                  i \in PathIds("t", nextId.t),
                  F \in Faults({"songs.Find", "fs.NewBucket", "fs.DownloadToStream",
                                "io.Copy(w)"})}) :
           Handle("getTrackAudio", in, getTrackAudio(db, nextId, in))

UpdateTrackReq(B) ==
    /\ Idle
    /\ \E in \in Requests(AuthCases,
               {[DefaultIn EXCEPT !.id = i, !.body = b, !.F = F] :
                  i \in PathIds("t", nextId.t), b \in B,
                  F \in Faults({"songs.FindOne", "songs.FindOneAndUpdate"})}) :
           Handle("updateTrack", in, updateTrack(db, nextId, in))

DeleteTrackReq ==
    /\ Idle
    /\ \E in \in Requests(AuthCases,
               {[DefaultIn EXCEPT !.id = i, !.F = F] :
                  i \in PathIds("t", nextId.t),
                  F \in Faults({"songs.FindOneAndDelete", "files.DeleteOne", "chunks.DeleteMany",
                                "playlists.UpdateMany"})}) :
           Handle("deleteTrack", in, deleteTrack(db, nextId, in))

GetTracksInputs ==
    {[DefaultIn EXCEPT !.form = f, !.query = q, !.F = F] :
       f \in {"parseError", "ok"}, q \in Queries, F \in Faults({"songs.Find"})}
GetTracksReq == Idle /\ \E in \in Requests(AuthCases, GetTracksInputs) :
           Handle("getTracks", in, getTracks(db, nextId, in))

AddPlaylistReq ==
    /\ Idle /\ nextId.p <= MaxPlaylists
    /\ \E in \in Requests(AuthCases,
               {[DefaultIn EXCEPT !.pbody = b, !.F = F] :
                  b \in PlaylistBodies,
                  F \in Faults({"playlists.InsertOne", "playlists.InsertOne.InsertedID"})}) :
           Handle("addPlaylist", in, addPlaylist(db, nextId, in))

\* the playlist addressed has room for one more reference
HasRoom(i) == i.oid \in DOMAIN db.playlists => Len(db.playlists[i.oid].Tracks) < MaxLen

AddTrackToPlaylist ==
    /\ Idle
    /\ \E in \in Requests(AuthCases,
               {[DefaultIn EXCEPT !.id = i, !.tid = t, !.F = F] :
                  i \in {p \in PathIds("p", nextId.p) : HasRoom(p)},
                  t \in PathIds("t", nextId.t),
                  F \in Faults({"songs.Find", "playlists.FindOneAndUpdate"})}) :
           Handle("addTrackToPlaylist", in, addTrackToPlaylist(db, nextId, in))

RemoveTrackFromPlaylist ==
    /\ Idle
    /\ \E in \in Requests(AuthCases,
               {[DefaultIn EXCEPT !.id = i, !.tid = t, !.F = F] :
                  i \in PathIds("p", nextId.p), t \in PathIds("t", nextId.t),
                  F \in Faults({"songs.Find", "playlists.FindOneAndUpdate"})}) :
           Handle("removeTrackFromPlaylist", in, removeTrackFromPlaylist(db, nextId, in))

DeletePlaylistReq ==
    /\ Idle
    /\ \E in \in Requests(AuthCases,
               {[DefaultIn EXCEPT !.id = i, !.F = F] :
                  i \in PathIds("p", nextId.p), F \in Faults({"playlists.DeleteOne"})}) :
           Handle("deletePlaylist", in, deletePlaylist(db, nextId, in))

GetPlaylistsInputs ==
    {[DefaultIn EXCEPT !.form = f, !.query = q, !.F = F] :
       f \in {"parseError", "ok"}, q \in Queries, F \in Faults({"playlists.Find"})}
GetPlaylistsReq == Idle /\ \E in \in Requests(AuthCases, GetPlaylistsInputs) :
           Handle("getPlaylists", in, getPlaylists(db, nextId, in))

GetVideo ==
    /\ Idle
    /\ \E in \in Requests(AuthCases,
               {[DefaultIn EXCEPT !.body = b, !.link = l, !.F = F] :
                  b \in {[ok |-> o, track |-> ZeroTrack] : o \in BOOLEAN},
                  l \in {LinkWithV, LinkWithoutV}, F \in Faults({"GetVideo"})}) :
           Handle("getVideo", in, getVideo(db, nextId, in))

GetStream ==
    /\ Idle
    /\ \E in \in Requests(AuthCases,
               {[DefaultIn EXCEPT !.body = b, !.formats = fs, !.F = F] :
                  b \in {[ok |-> o, track |-> ZeroTrack] : o \in BOOLEAN},
                  fs \in {<<>>, SomeFormats}, F \in Faults(FetchPoints)}) :
           Handle("getStream", in, getStream(db, nextId, in))

ConvertStreamToAudio ==
    /\ Idle
    /\ \E in \in Requests(AuthCases,
               {[DefaultIn EXCEPT !.F = F] : F \in Faults(ConvertPoints \cup RemovePoints)}) :
           Handle("convertStreamToAudio", in, convertStreamToAudio(db, nextId, in))

\* GET /health is served without the prologue
CheckHealth ==
    \E F \in Faults({"Ping"}) :
        LET in == [DefaultIn EXCEPT !.F = F]
            h == checkHealth(db, nextId, in)
        IN  /\ Idle
            /\ Accepting
            /\ last' = [ep |-> "checkHealth", in |-> in, before |-> db, tokenErr |-> NilErr,
                        validateErr |-> NilErr, validateCalls |-> 0, outbound |-> 0,
                        writes |-> h.writes, ops |-> h.ops, steps |-> h.steps,
                        added |-> h.added, panicked |-> h.panicked]
            /\ UNCHANGED <<db, nextId, loginServiceURL, server, goroutines, disk>>

\* the handler has returned: the response is on the wire, the request is gone
Respond ==
    /\ ~Idle
    /\ ~server.exited
    /\ last' = NoRequest
    /\ UNCHANGED <<db, nextId, loginServiceURL, server, goroutines, disk>>

(***************************************************************************)
(* Requests served concurrently.  net/http runs every request in its own   *)
(* goroutine; the goroutines share the database and the working directory. *)
(* A goroutine holds the locals of its handler, and pc names the call it   *)
(* makes next.                                                             *)
(***************************************************************************)
Goroutines == 1..MaxGoroutines

NoBytes == <<>>
Absent == [ino |-> 0, bytes |-> NoBytes]
EmptyDisk == [mp4 |-> Absent, mp3 |-> Absent]

NoGoroutine ==
    [ep |-> "none", pc |-> "idle", id |-> NilObjectID, pid |-> NilObjectID,
     updatedTrack |-> ZeroTrack, track |-> ZeroTrack, found |-> 0,
     video |-> "", file |-> 0, audioBytes |-> NoBytes, status |-> 0]

\* goroutine g moves to l
Go(g, l) == goroutines' = [goroutines EXCEPT ![g] = l]
At(g, ep, pc) == goroutines[g].ep = ep /\ goroutines[g].pc = pc
Finished(l, status) == [l EXCEPT !.pc = "done", !.status = status]

(***************************************************************************)
(* The process: main blocked in ListenAndServe, and the goroutine of       *)
(* shutdownGracefully blocked on the signal channel.                       *)
(***************************************************************************)
\* context.WithTimeout(context.Background(), 5*time.Second), in seconds
GracePeriod == 5

\* the process after ListenAndServe has started the listener
Running == [listening |-> TRUE, main |-> "serving", signal |-> "waiting",
            elapsed |-> 0, exited |-> FALSE, code |-> 0]

\* os.Interrupt is delivered: <-signals returns
Interrupt ==
    /\ ~server.exited
    /\ server.signal = "waiting"
    /\ server' = [server EXCEPT !.signal = "notified"]
    /\ UNCHANGED <<db, nextId, loginServiceURL, last, goroutines, disk>>

\* the goroutine makes the context and calls server.Shutdown(c), which closes
\* the listener first
BeginShutdown ==
    /\ ~server.exited
    /\ server.signal = "notified"
    /\ server' = [server EXCEPT !.signal = "shutdown", !.listening = FALSE, !.elapsed = 0]
    /\ UNCHANGED <<db, nextId, loginServiceURL, last, goroutines, disk>>

\* one second of the context's five passes
Tick ==
    /\ ~server.exited
    /\ server.signal \in {"shutdown", "done"}
    /\ server.elapsed < GracePeriod
    /\ server' = [server EXCEPT !.elapsed = @ + 1]
    /\ UNCHANGED <<db, nextId, loginServiceURL, last, goroutines, disk>>

\* server.Shutdown returns: no request is in flight, or the context has expired
\* (its error is only logged)
ShutdownReturns ==
    /\ ~server.exited
    /\ server.signal = "shutdown"
    /\ Idle \/ server.elapsed = GracePeriod
    /\ server' = [server EXCEPT !.signal = "done"]
    /\ UNCHANGED <<db, nextId, loginServiceURL, last, goroutines, disk>>

\* <-c.Done() returns when the context expires (cancel is only deferred), then
\* os.Exit(0)
ExitAfterGrace ==
    /\ ~server.exited
    /\ server.signal = "done"
    /\ server.elapsed = GracePeriod
    /\ server' = [server EXCEPT !.signal = "exited", !.exited = TRUE, !.code = 0]
    /\ UNCHANGED <<db, nextId, loginServiceURL, last, goroutines, disk>>

\* the listener is closed: server.ListenAndServe() returns http.ErrServerClosed
\* to api.ListenAndServe, which returns it to main
ServeReturns ==
    /\ ~server.exited
    /\ server.main = "serving"
    /\ ~server.listening
    /\ server' = [server EXCEPT !.main = "returned"]
    /\ UNCHANGED <<db, nextId, loginServiceURL, last, goroutines, disk>>

\* main: err != nil, logrus Fatal logs it and calls os.Exit(1)
Fatal ==
    /\ ~server.exited
    /\ server.main = "returned"
    /\ server' = [server EXCEPT !.main = "exited", !.exited = TRUE, !.code = 1]
    /\ UNCHANGED <<db, nextId, loginServiceURL, last, goroutines, disk>>

Init ==
    /\ db = EmptyDb
    /\ nextId = [t |-> 1, f |-> 1, p |-> 1]
    /\ loginServiceURL \in {<<>>, LoginHost, BadHost}
    /\ last = NoRequest
    /\ server = Running
    /\ goroutines = [g \in Goroutines |-> NoGoroutine]
    /\ disk = EmptyDisk

\* every endpoint of route()
Next ==
    \/ CheckHealth
    \/ UploadTrack(FewBodies, MaxTracks)
    \/ UploadAudioBytes(FewBodies, MaxTracks)
    \/ UploadTrackFromYoutubeLink(FewBodies, MaxTracks)
    \/ GetTrackAudio
    \/ UpdateTrackReq(FewBodies)
    \/ DeleteTrackReq
    \/ GetTracksReq
    \/ AddPlaylistReq
    \/ AddTrackToPlaylist
    \/ RemoveTrackFromPlaylist
    \/ DeletePlaylistReq
    \/ GetPlaylistsReq
    \/ GetVideo
    \/ GetStream
    \/ ConvertStreamToAudio
    \/ Respond

Spec == Init /\ [][Next]_vars

(***************************************************************************)
(* The track endpoints under every combination of empty and non-empty      *)
(* fields of the request body.                                             *)
(***************************************************************************)
NextTracks ==
    \/ UploadTrack(Bodies, MaxTracks)
    \/ UploadAudioBytes(Bodies, MaxTracks)
    \/ UploadTrackFromYoutubeLink(Bodies, MaxTracks)
    \/ UpdateTrackReq(Bodies)
    \/ DeleteTrackReq
    \/ Respond

SpecTracks == Init /\ [][NextTracks]_vars

(***************************************************************************)
(* The endpoints that change tracks and playlists.                         *)
(***************************************************************************)
NextPlaylists ==
    \/ UploadTrack(FewBodies, MaxTracks)
    \/ DeleteTrackReq
    \/ AddPlaylistReq
    \/ AddTrackToPlaylist
    \/ RemoveTrackFromPlaylist
    \/ DeletePlaylistReq
    \/ Respond

SpecPlaylists == Init /\ [][NextPlaylists]_vars

(***************************************************************************)
(* The endpoints that store, read and delete audio, with room for a second *)
(* upload.                                                                 *)
(***************************************************************************)
NextAudio ==
    \/ UploadTrack(FewBodies, MaxUploads)
    \/ UploadAudioBytes(FewBodies, MaxUploads)
    \/ GetTrackAudio
    \/ DeleteTrackReq
    \/ Respond

SpecAudio == Init /\ [][NextAudio]_vars

(***************************************************************************)
(* The prologue under many Authorization headers and many answers of the   *)
(* login service.                                                          *)
(***************************************************************************)
Pieces == {<<"B","e","a","r","e","r">>, <<" ">>, <<"x">>, <<"F","o","o">>}
RECURSIVE HeadersOf(_)
HeadersOf(k) ==
    IF k = 0 THEN {<<>>}
    ELSE LET S == HeadersOf(k - 1) IN S \cup {h \o p : h \in S, p \in Pieces}
Codes == {200, 201, 302, 401, 403, 404, 500}
ManyAuthCases ==
    {[DefaultIn EXCEPT !.header = h, !.resp = r] :
       h \in HeadersOf(MaxPieces),
       r \in {[transport |-> FALSE, code |-> c] : c \in Codes}
                \cup {[transport |-> TRUE, code |-> 0]}}

GetTracksAnyHeader ==
    Idle /\ \E in \in Requests(ManyAuthCases, GetTracksInputs) :
        Handle("getTracks", in, getTracks(db, nextId, in))
GetPlaylistsAnyHeader ==
    Idle /\ \E in \in Requests(ManyAuthCases, GetPlaylistsInputs) :
        Handle("getPlaylists", in, getPlaylists(db, nextId, in))

NextAuth ==
    \/ GetTracksAnyHeader
    \/ GetPlaylistsAnyHeader
    \/ Respond

SpecAuth == Init /\ [][NextAuth]_vars

\* the process from start to exit, serving the two reading endpoints
NextShutdown ==
    \/ GetTracksReq
    \/ CheckHealth
    \/ Respond
    \/ Interrupt
    \/ BeginShutdown
    \/ Tick
    \/ ShutdownReturns
    \/ ExitAfterGrace
    \/ ServeReturns
    \/ Fatal

SpecShutdown == Init /\ [][NextShutdown]_vars

\* video links put together from at most MaxPieces pieces, and lists of at
\* most MaxFormats formats, each format standing for its MimeType
LinkPieces == {VEq, Amp, <<"a">>, <<"b">>}
RECURSIVE LinksOf(_)
LinksOf(k) ==
    IF k = 0 THEN {<<>>}
    ELSE LET S == LinksOf(k - 1) IN S \cup {l \o p : l \in S, p \in LinkPieces}
MimeTypes == {<<"v","i","d","e","o","/","m","p","4">>, AudioMp4, AudioMp4 \o <<";">>,
              <<"a","u","d","i","o","/","w","e","b","m">>}
RECURSIVE FormatLists(_)
FormatLists(k) ==
    IF k = 0 THEN {<<>>}
    ELSE LET S == FormatLists(k - 1) IN S \cup {Append(fs, m) : fs \in S, m \in MimeTypes}

GetVideoAnyLink ==
    /\ Idle
    /\ \E in \in Requests(AuthCases,
               {[DefaultIn EXCEPT !.link = l, !.F = F] :
                  l \in LinksOf(MaxPieces), F \in Faults({"GetVideo"})}) :
           Handle("getVideo", in, getVideo(db, nextId, in))

GetStreamAnyFormats ==
    /\ Idle
    /\ \E in \in Requests(AuthCases,
               {[DefaultIn EXCEPT !.formats = fs, !.F = F] :
                  fs \in FormatLists(MaxFormats), F \in Faults({"GetStream"})}) :
           Handle("getStream", in, getStream(db, nextId, in))

UploadTrackFromAnyLink ==
    /\ Idle /\ CanUpload(MaxTracks)
    /\ \E in \in Requests(AuthCases,
               {[DefaultIn EXCEPT !.link = l, !.formats = fs] :
                  l \in LinksOf(MaxPieces), fs \in FormatLists(MaxFormats - 1)}) :
           Handle("uploadTrackFromYoutubeLink", in, uploadTrackFromYoutubeLink(db, nextId, in))

NextMedia ==
    \/ GetVideoAnyLink
    \/ GetStreamAnyFormats
    \/ UploadTrackFromAnyLink
    \/ Respond

SpecMedia == Init /\ [][NextMedia]_vars

(***************************************************************************)
(* DELETE /track/{id} and POST /playlist/{playlistid}/track/{trackid}      *)
(* served concurrently, one driver call of the storage client at a time,   *)
(* without storage failures.  The requests have passed the prologue and    *)
(* carry well-formed ids.                                                  *)
(***************************************************************************)
\* the database after POST /track and POST /playlist, with the track on the
\* playlist or not
StockedTrack ==
    [ID |-> Oid("t", 1), Name |-> "Unknown", Artist |-> "Unknown Artist",
     AlbumName |-> "Unknown Album", AudioFileID |-> Oid("f", 1)]
StockedDb(tracks) ==
    [songs |-> Put(<<>>, Oid("t", 1), StockedTrack),
     playlists |-> Put(<<>>, Oid("p", 1),
                       [ID |-> Oid("p", 1), Name |-> "p", Tracks |-> tracks]),
     files |-> {Oid("f", 1)},
     chunks |-> {<<Oid("f", 1), 1>>}]

InitStocked ==
    /\ db \in {StockedDb(<<>>), StockedDb(<<Oid("t", 1)>>)}
    /\ nextId = [t |-> 2, f |-> 2, p |-> 2]
    /\ loginServiceURL = LoginHost
    /\ last = NoRequest
    /\ server = Running
    /\ goroutines = [g \in Goroutines |-> NoGoroutine]
    /\ disk = EmptyDisk

Quiet == UNCHANGED <<nextId, loginServiceURL, last, server, disk>>

\* deleteTrack calls handler.DeleteTrack(ctx, id)
StartDeleteTrack ==
    \E g \in Goroutines, t \in DOMAIN db.songs \cup {Oid("t", 1)} :
        /\ goroutines[g] = NoGoroutine
        /\ Go(g, [NoGoroutine EXCEPT !.ep = "deleteTrack", !.pc = "FindOneAndDelete",
                                     !.id = t])
        /\ UNCHANGED db /\ Quiet

\* DeleteTrack: FindOneAndDelete on the songs and the decoding of its result
DeleteFindOneAndDelete ==
    \E g \in Goroutines :
        LET l == goroutines[g]
        IN  /\ At(g, "deleteTrack", "FindOneAndDelete")
            /\ IF l.id \in DOMAIN db.songs
               THEN /\ db' = [db EXCEPT !.songs = Remove(@, l.id)]
                    /\ Go(g, [l EXCEPT !.pc = "DeleteOne", !.track = db.songs[l.id]])
               ELSE /\ Go(g, Finished(l, StatusInternalServerError))
                    /\ UNCHANGED db
            /\ Quiet

\* DeleteTrack: DeleteOne on fs.files
DeleteDeleteOne ==
    \E g \in Goroutines :
        LET l == goroutines[g]
        IN  /\ At(g, "deleteTrack", "DeleteOne")
            /\ db' = [db EXCEPT !.files = @ \ {l.track.AudioFileID}]
            /\ Go(g, [l EXCEPT !.pc = "DeleteMany"])
            /\ Quiet

\* DeleteTrack: DeleteMany on fs.chunks
DeleteDeleteMany ==
    \E g \in Goroutines :
        LET l == goroutines[g]
        IN  /\ At(g, "deleteTrack", "DeleteMany")
            /\ db' = [db EXCEPT !.chunks = {c \in @ : c[1] # l.track.AudioFileID}]
            /\ Go(g, [l EXCEPT !.pc = "UpdateMany"])
            /\ Quiet

\* DeleteTrack: UpdateMany on the playlists, return nil; deleteTrack answers 200
DeleteUpdateMany ==
    \E g \in Goroutines :
        LET l == goroutines[g]
        IN  /\ At(g, "deleteTrack", "UpdateMany")
            /\ db' = [db EXCEPT !.playlists = PullFromPlaylists(@, l.track.ID)]
            /\ Go(g, Finished(l, StatusOK))
            /\ Quiet

\* addTrackToPlaylist has made pid and tid of the path
StartAddTrackToPlaylist ==
    \E g \in Goroutines, p \in DOMAIN db.playlists, t \in DOMAIN db.songs \cup {Oid("t", 1)} :
        /\ goroutines[g] = NoGoroutine
        /\ Go(g, [NoGoroutine EXCEPT !.ep = "addTrackToPlaylist", !.pc = "GetTracks",
                                     !.pid = p, !.id = t])
        /\ UNCHANGED db /\ Quiet

\* addTrackToPlaylist: handler.GetTracks, whose result is dropped
AddGetTracks ==
    \E g \in Goroutines :
        LET l == goroutines[g]
            r == GetTracks(db, {}, ById(l.id))
        IN  /\ At(g, "addTrackToPlaylist", "GetTracks")
            /\ Go(g, IF r.err.isErr THEN Finished(l, StatusInternalServerError)
                     ELSE [l EXCEPT !.pc = "UpdatePlaylist", !.found = Len(r.results)])
            /\ UNCHANGED db /\ Quiet

\* addTrackToPlaylist: handler.UpdatePlaylist with $push, and the answer
AddUpdatePlaylist ==
    \E g \in Goroutines :
        LET l == goroutines[g]
            r == UpdatePlaylist(db, {}, l.pid, [op |-> "$push", tracks |-> l.id])
        IN  /\ At(g, "addTrackToPlaylist", "UpdatePlaylist")
            /\ db' = r.db
            /\ Go(g, Finished(l, IF r.err.isErr THEN StatusInternalServerError
                                 ELSE StatusOK))
            /\ Quiet

NextDeleteAdd ==
    \/ StartDeleteTrack
    \/ DeleteFindOneAndDelete
    \/ DeleteDeleteOne
    \/ DeleteDeleteMany
    \/ DeleteUpdateMany
    \/ StartAddTrackToPlaylist
    \/ AddGetTracks
    \/ AddUpdatePlaylist

SpecDeleteAdd == InitStocked /\ [][NextDeleteAdd]_vars

(***************************************************************************)
(* Calls of MongoClient.UpdateTrack served concurrently, one driver call   *)
(* at a time.  updatedTrack carries the fields the call sets.              *)
(***************************************************************************)
NewValues == [Name |-> "n", Artist |-> "a", AlbumName |-> "l"]
TrackFields == DOMAIN NewValues
\* an updatedTrack that sets the fields of S
Sets(S) ==
    [ZeroTrack EXCEPT !.Name = IF "Name" \in S THEN NewValues.Name ELSE "",
                      !.Artist = IF "Artist" \in S THEN NewValues.Artist ELSE "",
                      !.AlbumName = IF "AlbumName" \in S THEN NewValues.AlbumName ELSE ""]
SetFields(updatedTrack) == {f \in TrackFields : updatedTrack[f] # ""}

StartUpdateTrack ==
    \E g \in Goroutines, t \in DOMAIN db.songs, S \in (SUBSET TrackFields) \ {{}} :
        /\ goroutines[g] = NoGoroutine
        /\ Go(g, [NoGoroutine EXCEPT !.ep = "updateTrack", !.pc = "FindOne", !.id = t,
                                     !.updatedTrack = Sets(S)])
        /\ UNCHANGED db /\ Quiet

\* UpdateTrack: FindOne, the decoding of the track, and the merge of the
\* fields of updatedTrack that are not empty
UpdateFindOne ==
    \E g \in Goroutines :
        LET l == goroutines[g]
        IN  /\ At(g, "updateTrack", "FindOne")
            /\ Go(g, IF l.id \in DOMAIN db.songs
                     THEN [l EXCEPT !.pc = "FindOneAndUpdate",
                                    !.track = MergeTrack(db.songs[l.id], l.updatedTrack)]
                     ELSE Finished(l, StatusInternalServerError))
            /\ UNCHANGED db /\ Quiet

\* UpdateTrack: FindOneAndUpdate with $set of the merged track
UpdateFindOneAndUpdate ==
    \E g \in Goroutines :
        LET l == goroutines[g]
        IN  /\ At(g, "updateTrack", "FindOneAndUpdate")
            /\ IF l.id \in DOMAIN db.songs
               THEN /\ db' = [db EXCEPT !.songs[l.id] = MergeTrack(@, l.track)]
                    /\ Go(g, Finished(l, StatusOK))
               ELSE /\ Go(g, Finished(l, StatusInternalServerError))
                    /\ UNCHANGED db
            /\ Quiet

NextUpdates ==
    \/ StartUpdateTrack
    \/ UpdateFindOne
    \/ UpdateFindOneAndUpdate

SpecUpdates == InitStocked /\ [][NextUpdates]_vars

(***************************************************************************)
(* POST /youtube/track, POST /stream and POST /convert served concurrently,*)
(* one call on the working directory at a time, without failures of the    *)
(* video platform.  Every request uses the names video.mp4 and video.mp3.  *)
(* A file is its inode and its bytes; ino 0 is no file.  The bytes of a    *)
(* video's stream are its identifier, and the converter's output for bytes *)
(* b is Converted(b).                                                      *)
(***************************************************************************)
Videos == {"a", "b"}
Converted(bytes) == <<"mp3">> \o bytes
Still == UNCHANGED <<loginServiceURL, last, server>>

\* the video and its stream are fetched: os.Create comes next
StartUploadFromLink ==
    \E g \in Goroutines, v \in Videos :
        /\ goroutines[g] = NoGoroutine
        /\ Go(g, [NoGoroutine EXCEPT !.ep = "uploadTrackFromYoutubeLink",
                                     !.pc = "os.Create", !.video = v])
        /\ UNCHANGED <<db, nextId, disk>> /\ Still

StartGetStream ==
    \E g \in Goroutines, v \in Videos :
        /\ goroutines[g] = NoGoroutine
        /\ Go(g, [NoGoroutine EXCEPT !.ep = "getStream", !.pc = "os.Create", !.video = v])
        /\ UNCHANGED <<db, nextId, disk>> /\ Still

\* exec.LookPath has found the converter: cmd.Run comes next
StartConvert ==
    \E g \in Goroutines :
        /\ goroutines[g] = NoGoroutine
        /\ Go(g, [NoGoroutine EXCEPT !.ep = "convertStreamToAudio", !.pc = "cmd.Run"])
        /\ UNCHANGED <<db, nextId, disk>> /\ Still

\* os.Create("video.mp4"): a new file, or the file of that name truncated
CreateFile ==
    \E g \in Goroutines :
        LET l == goroutines[g]
            ino == IF disk.mp4.ino = 0 THEN g ELSE disk.mp4.ino
        IN  /\ l.pc = "os.Create"
            /\ disk' = [disk EXCEPT !.mp4 = [ino |-> ino, bytes |-> NoBytes]]
            /\ Go(g, [l EXCEPT !.pc = "io.Copy", !.file = ino])
            /\ UNCHANGED <<db, nextId>> /\ Still

\* io.Copy(file, stream): the bytes go to the file the goroutine has open,
\* which is the one named video.mp4 unless that was removed since
CopyStream ==
    \E g \in Goroutines :
        LET l == goroutines[g]
        IN  /\ l.pc = "io.Copy"
            /\ disk' = IF disk.mp4.ino = l.file
                       THEN [disk EXCEPT !.mp4.bytes = <<l.video>>]
                       ELSE disk
            /\ Go(g, IF l.ep = "getStream" THEN Finished(l, StatusOK)
                     ELSE [l EXCEPT !.pc = "cmd.Run"])
            /\ UNCHANGED <<db, nextId>> /\ Still

\* ffmpeg -y -i video.mp4 video.mp3: fails without an input it can read
RunConverter ==
    \E g \in Goroutines :
        LET l == goroutines[g]
        IN  /\ l.pc = "cmd.Run"
            /\ IF disk.mp4.ino = 0 \/ disk.mp4.bytes = NoBytes
               THEN /\ Go(g, Finished(l, StatusInternalServerError))
                    /\ UNCHANGED disk
               ELSE /\ disk' = [disk EXCEPT !.mp3 = [ino |-> 1,
                                                     bytes |-> Converted(disk.mp4.bytes)]]
                    /\ Go(g, [l EXCEPT !.pc = "ioutil.ReadFile"])
            /\ UNCHANGED <<db, nextId>> /\ Still

\* ioutil.ReadFile("video.mp3")
ReadAudio ==
    \E g \in Goroutines :
        LET l == goroutines[g]
        IN  /\ l.pc = "ioutil.ReadFile"
            /\ Go(g, IF disk.mp3.ino = 0 THEN Finished(l, StatusInternalServerError)
                     ELSE [l EXCEPT !.pc = "os.Remove(video.mp4)",
                                    !.audioBytes = disk.mp3.bytes])
            /\ UNCHANGED <<db, nextId, disk>> /\ Still

\* os.Remove("video.mp4"), whose error is only logged
RemoveVideo ==
    \E g \in Goroutines :
        LET l == goroutines[g]
        IN  /\ l.pc = "os.Remove(video.mp4)"
            /\ disk' = [disk EXCEPT !.mp4 = Absent]
            /\ Go(g, [l EXCEPT !.pc = "os.Remove(video.mp3)"])
            /\ UNCHANGED <<db, nextId>> /\ Still

\* os.Remove("video.mp3"), whose error is only logged; POST /convert answers
\* with the bytes
RemoveAudio ==
    \E g \in Goroutines :
        LET l == goroutines[g]
        IN  /\ l.pc = "os.Remove(video.mp3)"
            /\ disk' = [disk EXCEPT !.mp3 = Absent]
            /\ Go(g, IF l.ep = "convertStreamToAudio" THEN Finished(l, StatusOK)
                     ELSE [l EXCEPT !.pc = "UploadAudioFile"])
            /\ UNCHANGED <<db, nextId>> /\ Still

\* POST /youtube/track stores the bytes and the track, and answers
StoreAudio ==
    \E g \in Goroutines :
        LET l == goroutines[g]
            track == WithDefaults([ZeroTrack EXCEPT !.ID = Oid("t", nextId.t)])
            h == storeTrack(db, {}, nextId, track, 1, <<>>, <<>>)
        IN  /\ l.pc = "UploadAudioFile"
            /\ db' = h.db
            /\ nextId' = Advance(nextId, h.db)
            /\ Go(g, Finished([l EXCEPT !.track = h.added], Status(h)))
            /\ UNCHANGED disk /\ Still

NextTempFiles ==
    \/ StartUploadFromLink
    \/ StartGetStream
    \/ StartConvert
    \/ CreateFile
    \/ CopyStream
    \/ RunConverter
    \/ ReadAudio
    \/ RemoveVideo
    \/ RemoveAudio
    \/ StoreAudio

SpecTempFiles == InitStocked /\ [][NextTempFiles]_vars

(***************************************************************************)
(* PUT /track/{id} with bodies that carry an id and an audioFile, beside   *)
(* a second track and a playlist.                                          *)
(***************************************************************************)
IdentityBodies ==
    {[ok |-> TRUE, track |-> [ID |-> i, Name |-> n, Artist |-> "", AlbumName |-> "",
                              AudioFileID |-> f]] :
       i \in {NilObjectID, Oid("t", 1), Oid("t", 2), Oid("t", 3)},
       f \in {NilObjectID, Oid("f", 1), Oid("f", 2), Oid("f", 3)},
       n \in {"", "n"}}

UpdateTrackAnyIdentity ==
    /\ Idle
    /\ \E in \in Requests({[DefaultIn EXCEPT !.header = BearerTok]},
               {[DefaultIn EXCEPT !.id = i, !.body = b] :
                  i \in PathIds("t", nextId.t), b \in IdentityBodies}) :
           Handle("updateTrack", in, updateTrack(db, nextId, in))

NextIdentity ==
    \/ UploadTrack({[ok |-> TRUE, track |-> ZeroTrack]}, MaxUploads)
    \/ AddPlaylistReq
    \/ UpdateTrackAnyIdentity
    \/ Respond

SpecIdentity == Init /\ [][NextIdentity]_vars

(***************************************************************************)
(* Properties.  They speak of the request in hand: last holds its inputs,  *)
(* last.before the database it found, db the database it left.             *)
(***************************************************************************)
\* the request in hand is to an endpoint other than GET /health
Guarded == last.ep \notin {"none", "checkHealth"}
Worked == last.ops # <<>> \/ last.steps # <<>> \/ db # last.before
\* 'Bearer ' followed by one non-empty token without a space
WellFormedBearer(h) ==
    /\ Len(h) > 7
    /\ SubSeq(h, 1, 7) = <<"B","e","a","r","e","r"," ">>
    /\ \A i \in 8..Len(h) : h[i] # " "
\* the login service accepts the token
Accepted ==
    /\ loginServiceURL = LoginHost
    /\ ~last.in.resp.transport /\ last.in.resp.code = 200
Called(name) == \E i \in 1..Len(last.ops) : last.ops[i].name = name
Returned(name, ok) ==
    \E i \in 1..Len(last.ops) : last.ops[i].name = name /\ last.ops[i].ok = ok
Without(seq, v) == SelectSeq(seq, LAMBDA x : x # v)

\* C1: on every endpoint other than GET /health, a storage operation or a
\* media step is performed for a request only if getAuthToken succeeded and
\* ValidateToken returned no error for that same request.
C1_AuthBeforeWork ==
    (Guarded /\ Worked) =>
        /\ ~last.tokenErr.isErr
        /\ last.validateCalls = 1
        /\ ~last.validateErr.isErr
        /\ (WellFormedBearer(last.in.header) => Accepted)
C1_Witness ==
    /\ last.ep = "convertStreamToAudio"
    /\ Returned("cmd.Run", TRUE)
    /\ last.validateCalls = 1
    /\ ~last.validateErr.isErr

\* C2: on every endpoint other than GET /health, a request without an
\* Authorization header is answered 400 and ValidateToken is not called; a
\* request with a well-formed 'Bearer <token>' header whose token the login
\* service does not accept is answered 401.
C2_AuthStatus ==
    Guarded =>
        /\ last.in.header = <<>> =>
              Status(last) = 400 /\ last.validateCalls = 0 /\ last.outbound = 0
        /\ (WellFormedBearer(last.in.header) /\ ~Accepted) => Status(last) = 401
C2_Witness ==
    /\ last.ep = "getPlaylists"
    /\ last.in.header = BearerTok
    /\ last.in.resp.code = 401
    /\ last.validateCalls = 1
    /\ Status(last) = 401

\* C3: every non-empty Authorization header that is not 'Bearer ' followed
\* by exactly one non-empty token without spaces is rejected by getAuthToken:
\* the answer is 400 and ValidateToken is not called.
C3_MalformedHeaderRejected ==
    (Guarded /\ last.in.header # <<>> /\ ~WellFormedBearer(last.in.header)) =>
        /\ last.tokenErr.isErr
        /\ Status(last) = 400
        /\ last.validateCalls = 0
\* the header 'Foo x' passes getAuthToken and its token reaches ValidateToken
C3_FooAccepted ==
    /\ last.ep = "getTracks"
    /\ last.in.header = <<"F","o","o"," ","x">>
    /\ ~last.tokenErr.isErr
    /\ last.validateCalls = 1
    /\ Status(last) = 200

\* C4: when POST /track, POST /upload or POST /youtube/track succeeds, the
\* record passed to AddTrack (and stored) has name 'Unknown', artist 'Unknown
\* Artist', album 'Unknown Album' where the supplied value is empty, and the
\* supplied value where it is not.
OrDefault(v, d) == IF v = "" THEN d ELSE v
C4_CreatedWithDefaults ==
    (/\ last.ep \in {"uploadTrack", "uploadAudioBytes", "uploadTrackFromYoutubeLink"}
     /\ Status(last) = 200) =>
        LET t == last.in.body.track
            a == last.added
        IN  /\ Returned("AddTrack", TRUE)
            /\ a.Name = OrDefault(t.Name, "Unknown")
            /\ a.Artist = OrDefault(t.Artist, "Unknown Artist")
            /\ a.AlbumName = OrDefault(t.AlbumName, "Unknown Album")
            /\ a.ID \in DOMAIN db.songs /\ db.songs[a.ID] = a
C4_Witness ==
    /\ last.ep = "uploadTrackFromYoutubeLink"
    /\ Status(last) = 200
    /\ last.in.body.track.Name = "" /\ last.in.body.track.Artist = "a"
    /\ last.added.Name = "Unknown" /\ last.added.Artist = "a"
    /\ last.added.AlbumName = "Unknown Album"

\* C5: PUT /track/{id} overwrites only the fields that are non-empty in the
\* request body: a field that is empty or absent in the body keeps the value
\* the stored track had before the update.
C5_UpdateKeepsEmptyFields ==
    (/\ last.ep = "updateTrack"
     /\ Status(last) = 200
     /\ last.in.id.oid \in DOMAIN last.before.songs) =>
        LET id == last.in.id.oid
            b == last.in.body.track
        IN  /\ id \in DOMAIN db.songs
            /\ b.Name = "" => db.songs[id].Name = last.before.songs[id].Name
            /\ b.Artist = "" => db.songs[id].Artist = last.before.songs[id].Artist
            /\ b.AlbumName = "" => db.songs[id].AlbumName = last.before.songs[id].AlbumName
\* an update that names only the album replaces the stored name 'n'
C5_NameLost ==
    /\ last.ep = "updateTrack"
    /\ Status(last) = 200
    /\ last.in.body.track.Name = "" /\ last.in.body.track.AlbumName = "b"
    /\ last.in.id.oid \in DOMAIN last.before.songs
    /\ last.before.songs[last.in.id.oid].Name = "n"
    /\ db.songs[last.in.id.oid].Name = "Unknown"

\* C6: after DELETE /track/{id} is answered 200 for track T, no playlist
\* holds a reference to T, and every playlist keeps its other references.
C6_DeleteCascades ==
    (last.ep = "deleteTrack" /\ Status(last) = 200) =>
        /\ DOMAIN db.playlists = DOMAIN last.before.playlists
        /\ \A p \in DOMAIN db.playlists :
              db.playlists[p].Tracks = Without(last.before.playlists[p].Tracks, last.in.id.oid)
\* the track is deleted, the answer is 200, and a playlist still refers to it
C6_DanglingReference ==
    /\ last.ep = "deleteTrack"
    /\ Status(last) = 200
    /\ last.in.id.oid \notin DOMAIN db.songs
    /\ \E p \in DOMAIN db.playlists : Contains(db.playlists[p].Tracks, last.in.id.oid)

\* C7: after DeleteTrack returns no error for track T, the file record and
\* every chunk of the audio object T referred to are gone, and the audio
\* objects of all other tracks are as they were.
C7_DeleteRemovesAudio ==
    (last.ep = "deleteTrack" /\ Returned("DeleteTrack", TRUE)) =>
        LET T == last.in.id.oid
            f == last.before.songs[T].AudioFileID
        IN  /\ T \in DOMAIN last.before.songs /\ T \notin DOMAIN db.songs
            /\ f \notin db.files
            /\ \A c \in db.chunks : c[1] # f
            /\ db.files = last.before.files \ {f}
            /\ db.chunks = {c \in last.before.chunks : c[1] # f}
            /\ \A o \in DOMAIN db.songs :
                  o \in DOMAIN last.before.songs /\ db.songs[o] = last.before.songs[o]
C7_Witness ==
    /\ last.ep = "deleteTrack" /\ Returned("DeleteTrack", TRUE)
    /\ LET f == last.before.songs[last.in.id.oid].AudioFileID
       IN  /\ f \in last.before.files
           /\ Cardinality({c \in last.before.chunks : c[1] = f}) = MaxChunks
           /\ \E o \in DOMAIN db.songs :
                 /\ db.songs[o].AudioFileID \in db.files
                 /\ \E c \in db.chunks : c[1] = db.songs[o].AudioFileID

\* C8: POST /playlist/{playlistId}/track/{trackId} with a well-formed
\* trackId that matches no stored track fails (its status is not 200), leaves
\* the playlists' references as they were, and does not call UpdatePlaylist.
C8_UnknownTrackNotAdded ==
    (/\ last.ep = "addTrackToPlaylist"
     /\ WellFormedBearer(last.in.header) /\ Accepted
     /\ last.in.id.wellFormed /\ last.in.tid.wellFormed
     /\ last.in.tid.oid \notin DOMAIN last.before.songs) =>
        /\ Status(last) # 200
        /\ db.playlists = last.before.playlists
        /\ ~Called("UpdatePlaylist")
\* a track id that no track has is pushed onto a playlist, and the answer is 200
C8_UnknownTrackAdded ==
    /\ last.ep = "addTrackToPlaylist"
    /\ last.in.tid.wellFormed
    /\ last.in.tid.oid \notin DOMAIN last.before.songs
    /\ Status(last) = 200
    /\ Returned("UpdatePlaylist", TRUE)
    /\ last.in.id.oid \in DOMAIN db.playlists
    /\ Len(db.playlists[last.in.id.oid].Tracks)
          = Len(last.before.playlists[last.in.id.oid].Tracks) + 1

\* C9: DELETE /track/{id} with valid authentication and a well-formed id
\* that matches no stored track is answered 500, and no track, audio object
\* or playlist is changed.
C9_DeleteUnknownTrack ==
    (/\ last.ep = "deleteTrack"
     /\ WellFormedBearer(last.in.header) /\ Accepted
     /\ last.in.id.wellFormed
     /\ last.in.id.oid \notin DOMAIN last.before.songs) =>
        /\ Status(last) = 500
        /\ Len(last.writes) = 1
        /\ db = last.before
C9_Witness ==
    /\ last.ep = "deleteTrack"
    /\ last.in.F = {}
    /\ last.in.id.wellFormed
    /\ last.in.id.oid \notin DOMAIN last.before.songs
    /\ last.before.songs # <<>> /\ last.before.files # {} /\ last.before.playlists # <<>>
    /\ Status(last) = 500

\* C10: when the login service answers ValidateToken's request with a status
\* code other than 200, ValidateToken returns the error 'non-200 status code
\* received: <code>', <code> being the decimal numeral of that status code.
DigitChars == <<"0","1","2","3","4","5","6","7","8","9">>
IsDigit(c) == \E i \in 1..10 : DigitChars[i] = c
DigitValue(c) == (CHOOSE i \in 1..10 : DigitChars[i] = c) - 1
RECURSIVE Value(_)
Value(s) == IF s = <<>> THEN 0 ELSE 10 * Value(SubSeq(s, 1, Len(s) - 1)) + DigitValue(s[Len(s)])
\* s is the decimal numeral of n
Numeral(s, n) ==
    /\ s # <<>>
    /\ \A i \in 1..Len(s) : IsDigit(s[i])
    /\ Len(s) > 1 => s[1] # "0"
    /\ Value(s) = n
C10_Non200Message ==
    (/\ Guarded
     /\ ~last.tokenErr.isErr
     /\ loginServiceURL = LoginHost
     /\ ~last.in.resp.transport
     /\ last.in.resp.code # 200) =>
        LET m == last.validateErr.msg
            k == Len(MsgNon200)
        IN  /\ last.validateErr.isErr
            /\ Len(m) > k
            /\ SubSeq(m, 1, k) = MsgNon200
            /\ Numeral(SubSeq(m, k + 1, Len(m)), last.in.resp.code)
C10_Witness ==
    /\ last.ep = "getTracks"
    /\ last.in.resp.code = 404
    /\ last.validateErr.isErr
    /\ last.validateErr.msg = MsgNon200 \o <<"4","0","4">>
    /\ Status(last) = 401

\* C11: one call of ValidateToken issues at most one outbound request, and
\* none when the login service URL is empty, where it returns 'login service
\* url cannot be emtpy'; it returns nil exactly when that one request met no
\* transport error and was answered 200; a transport error is returned as is.
C11_OneRequest ==
    (Guarded /\ last.validateCalls = 1) =>
        /\ last.outbound <= 1
        /\ loginServiceURL = <<>> =>
              /\ last.outbound = 0
              /\ last.validateErr.isErr
              /\ last.validateErr.msg = <<"l","o","g","i","n"," ","s","e","r","v","i","c","e"," ",
                                          "u","r","l"," ","c","a","n","n","o","t"," ","b","e"," ",
                                          "e","m","t","p","y">>
        /\ ~last.validateErr.isErr <=>
              (last.outbound = 1 /\ ~last.in.resp.transport /\ last.in.resp.code = 200)
        /\ (last.outbound = 1 /\ last.in.resp.transport) => last.validateErr = Err(MsgTransport)
C11_Witness ==
    /\ last.ep = "getTracks"
    /\ last.validateCalls = 1
    /\ last.outbound = 1
    /\ last.in.resp.transport
    /\ last.validateErr = Err(MsgTransport)
    /\ Status(last) = 401

\* C12: in every reachable state, the audio reference of every stored track
\* points to a stored audio object that exists, from the insertion of the
\* track record to its deletion.
C12_AudioReferenceExists ==
    \A id \in DOMAIN db.songs : db.songs[id].AudioFileID \in db.files
\* an upload is answered 200 and its track refers to a file that was never
\* recorded in fs.files
C12_TrackWithoutAudio ==
    /\ last.ep = "uploadTrack"
    /\ Status(last) = 200
    /\ Returned("UploadAudioFile", TRUE) /\ Returned("AddTrack", TRUE)
    /\ last.added.ID \in DOMAIN db.songs
    /\ db.songs[last.added.ID].AudioFileID \notin db.files

\* C13: a playlist created by POST /playlist is stored without track
\* references, whatever the request body holds; a reference enters a playlist
\* only through the add-track request.
C13_CreatedEmpty ==
    (~Idle /\ last.ep # "addTrackToPlaylist") =>
        \A p \in DOMAIN db.playlists :
            IF p \in DOMAIN last.before.playlists
            THEN \A i \in 1..Len(db.playlists[p].Tracks) :
                    Contains(last.before.playlists[p].Tracks, db.playlists[p].Tracks[i])
            ELSE db.playlists[p].Tracks = <<>>
\* the playlist is created with the reference its request body names
C13_CreatedWithTracks ==
    /\ last.ep = "addPlaylist"
    /\ Status(last) = 200
    /\ last.in.pbody.Tracks # <<>>
    /\ \E p \in DOMAIN db.playlists \ DOMAIN last.before.playlists :
          db.playlists[p].Tracks = last.in.pbody.Tracks

\* C14: the track references of a playlist form a set: no playlist holds the
\* same reference more than once, and adding a track the playlist already
\* holds creates no second reference.
C14_NoDuplicateReference ==
    \A p \in DOMAIN db.playlists :
        \A i, j \in 1..Len(db.playlists[p].Tracks) :
            i # j => db.playlists[p].Tracks[i] # db.playlists[p].Tracks[j]
\* a stored track that the playlist already holds is added a second time
C14_AddedTwice ==
    /\ last.ep = "addTrackToPlaylist"
    /\ Status(last) = 200
    /\ last.in.tid.oid \in DOMAIN db.songs
    /\ last.in.id.oid \in DOMAIN last.before.playlists
    /\ last.before.playlists[last.in.id.oid].Tracks = <<last.in.tid.oid>>
    /\ db.playlists[last.in.id.oid].Tracks = <<last.in.tid.oid, last.in.tid.oid>>

\* C15: DeletePlaylist for an id that matches no stored playlist returns 'no
\* documents were deleted', so that DELETE /playlist/{id} is answered 500, and
\* changes no playlist and no track; AddTrack and AddPlaylist return an error
\* when the store reports no inserted id.
LastMessage == last.writes[Len(last.writes)].message
C16_NoEarlyExit ==
    /\ server.signal \in {"shutdown", "done", "exited"} => ~server.listening
    /\ (server.exited /\ ~Idle) => server.elapsed = GracePeriod

\* main has left through Fatal with a request in flight and the grace period
\* barely begun
C16_ExitedInFlight ==
    /\ server.exited
    /\ server.code = 1
    /\ server.signal = "shutdown"
    /\ ~Idle
    /\ server.elapsed < GracePeriod

\* the video identifier as the text after the first "v=", up to the next "&"
ClaimedId(link) ==
    LET i == Index(link, VEq)
        rest == SubSeq(link, i + Len(VEq), Len(link))
        j == Index(rest, Amp)
    IN  IF j = 0 THEN rest ELSE SubSeq(rest, 1, j - 1)

\* C17: the video identifier handed to GetVideo is the text of the link
\* from right after the first "v=" to just before the next "&", or to the end
\* of the link when no "&" follows.
C17_VideoId ==
    \A i \in 1..Len(last.ops) :
        last.ops[i].name = "GetVideo" => last.ops[i].arg = ClaimedId(last.in.link)

\* the link v=av= : GetVideo is handed "a", the text after the first "v=" is "av="
C17_CutAtSecondVEq ==
    /\ last.in.link = VEq \o <<"a">> \o VEq
    /\ \E i \in 1..Len(last.ops) :
          /\ last.ops[i].name = "GetVideo"
          /\ last.ops[i].arg = <<"a">>
          /\ ClaimedId(last.in.link) = <<"a">> \o VEq

\* the 0-based indexes of the formats whose MimeType contains "audio/mp4"
AudioIndexes(formats) ==
    {k \in 0..(Len(formats) - 1) :
       \E j \in 1..Len(formats[k + 1]) :
          j + Len(AudioMp4) - 1 <= Len(formats[k + 1])
            /\ SubSeq(formats[k + 1], j, j + Len(AudioMp4) - 1) = AudioMp4}

\* C18: the format handed to GetStream is the one with the lowest index whose
\* MimeType contains "audio/mp4", and the one at index 0 when none does.
C18_FirstAudioFormat ==
    \A i \in 1..Len(last.ops) :
        last.ops[i].name = "GetStream" =>
            LET A == AudioIndexes(last.in.formats)
            IN  /\ last.ops[i].arg \in 0..(Len(last.in.formats) - 1)
                /\ A # {} => last.ops[i].arg \in A /\ \A k \in A : last.ops[i].arg <= k
                /\ A = {} => last.ops[i].arg = 0

\* of three formats the second and the third are audio/mp4: the second is chosen
C18_Witness ==
    /\ AudioIndexes(last.in.formats) = {1, 2}
    /\ \E i \in 1..Len(last.ops) :
          last.ops[i].name = "GetStream" /\ last.ops[i].arg = 1 /\ last.ops[i].ok

\* the request has made video.mp4 (os.Create) or video.mp3 (the converter's run)
CreatedTempFile == Returned("os.Create", TRUE) \/ Returned("cmd.Run", TRUE)

\* C19: a request that converts (POST /convert, POST /youtube/track) and has
\* made video.mp4 or video.mp3 has tried to remove both files by the time it
\* ends, whether it failed or succeeded; and a removal that fails changes
\* neither the status nor the body of the answer.
C19_TempFilesRemoved ==
    /\ (last.ep \in {"convertStreamToAudio", "uploadTrackFromYoutubeLink"}
          /\ CreatedTempFile) =>
            Called("os.Remove(video.mp4)") /\ Called("os.Remove(video.mp3)")
    /\ (last.ep = "convertStreamToAudio" /\ last.in.F \subseteq RemovePoints
          /\ last.in.F # {} /\ WellFormedBearer(last.in.header) /\ Accepted) =>
            last.writes = <<respondWithSuccessBytes(StatusOK)>>

\* POST /youtube/track made video.mp4, the converter then failed: the answer
\* is 500 and no removal was tried
C19_LeftBehind ==
    /\ last.ep = "uploadTrackFromYoutubeLink"
    /\ Returned("os.Create", TRUE)
    /\ Returned("cmd.Run", FALSE)
    /\ ~Called("os.Remove(video.mp4)")
    /\ ~Called("os.Remove(video.mp3)")
    /\ Status(last) = 500

\* the operations of the DbHandler interface
StorageOps == {"UploadAudioFile", "AddTrack", "GetTracks", "DownloadAudioFile",
               "UpdateTrack", "DeleteTrack", "AddPlaylist", "UpdatePlaylist",
               "DeletePlaylist", "GetPlaylists", "Ping"}

\* C20: on every endpoint, GET /health included, a storage operation that
\* returns an error is answered 500 and is the last storage operation of the
\* request; and a request whose authentication, input and storage operations
\* all succeed is answered 200.
C20_StorageErrors ==
    /\ \A i \in 1..Len(last.ops) :
          (last.ops[i].name \in StorageOps /\ ~last.ops[i].ok) =>
              /\ Status(last) = 500
              /\ \A j \in (i + 1)..Len(last.ops) : last.ops[j].name \notin StorageOps
    /\ (/\ last.ep # "none"
        /\ last.ep = "checkHealth" \/ (~last.tokenErr.isErr /\ ~last.validateErr.isErr)
        /\ last.in.form = "ok"
        /\ \A i \in 1..Len(last.writes) : last.writes[i].code # 400
        /\ \A i \in 1..Len(last.ops) : last.ops[i].ok) =>
           Status(last) = 200

\* POST /track whose body does not decode: 400 is written, the handler goes
\* on, UploadAudioFile fails, and the status on the wire stays 400
C20_StorageErrorAnswered400 ==
    /\ last.ep = "uploadTrack"
    /\ ~last.in.body.ok
    /\ Returned("UploadAudioFile", FALSE)
    /\ Status(last) = 400
    /\ Len(last.writes) = 2

\* a step of the DAO operation of the request, with its outcome
Stepped(name, ok) ==
    \E i \in 1..Len(last.steps) : last.steps[i] = [call |-> name, ok |-> ok]

\* C21: track deletion is not atomic.  When a step after the removal of the
\* track record fails, the record stays removed and what the later steps
\* would have removed stays: the audio object, or the playlists' references.
C21_NotAtomic ==
    (last.ep = "deleteTrack" /\ last.in.id.oid \in DOMAIN last.before.songs) =>
        LET T == last.in.id.oid
        IN  /\ Stepped("files.DeleteOne", FALSE) =>
                  /\ T \notin DOMAIN db.songs
                  /\ db.files = last.before.files /\ db.chunks = last.before.chunks
                  /\ db.playlists = last.before.playlists
            /\ Stepped("chunks.DeleteMany", FALSE) =>
                  /\ T \notin DOMAIN db.songs
                  /\ db.chunks = last.before.chunks
                  /\ db.playlists = last.before.playlists
            /\ Stepped("playlists.UpdateMany", FALSE) =>
                  /\ T \notin DOMAIN db.songs
                  /\ db.playlists = last.before.playlists

\* the record of the track is gone, its audio object is still stored and a
\* playlist still refers to the track
C21_Witness ==
    /\ last.ep = "deleteTrack"
    /\ Stepped("files.DeleteOne", FALSE)
    /\ last.in.id.oid \in DOMAIN last.before.songs
    /\ last.in.id.oid \notin DOMAIN db.songs
    /\ last.before.songs[last.in.id.oid].AudioFileID \in db.files
    /\ \E p \in DOMAIN db.playlists : Contains(db.playlists[p].Tracks, last.in.id.oid)

\* C22: DeleteTrack returns an error whenever one of its four steps fails:
\* when it returns nil, the track record, the file record and the chunks were
\* removed and the track id was pulled from the playlists, all without error.
C22_ErrorsReturned ==
    (last.ep = "deleteTrack" /\ Returned("DeleteTrack", TRUE)) =>
        /\ Stepped("songs.FindOneAndDelete", TRUE)
        /\ Stepped("files.DeleteOne", TRUE)
        /\ Stepped("chunks.DeleteMany", TRUE)
        /\ Stepped("playlists.UpdateMany", TRUE)
        /\ \A i \in 1..Len(last.steps) : last.steps[i].ok

\* UpdateMany on the playlists failed and DeleteTrack returned nil
C22_PullErrorDropped ==
    /\ last.ep = "deleteTrack"
    /\ Stepped("playlists.UpdateMany", FALSE)
    /\ Returned("DeleteTrack", TRUE)
    /\ Status(last) = 200

\* C23: a request answered 400 or 401 leaves the store as it was; POST /track
\* with a body field that does not decode is answered 400 without a call of
\* UploadAudioFile or AddTrack.
C23_RejectedUnchanged ==
    /\ Status(last) \in {400, 401} => db = last.before
    /\ (last.ep = "uploadTrack" /\ last.in.form = "ok" /\ ~last.in.body.ok
          /\ WellFormedBearer(last.in.header) /\ Accepted) =>
            /\ Status(last) = 400
            /\ ~Called("UploadAudioFile") /\ ~Called("AddTrack")

\* POST /track is answered 400 for its body, and the track and its audio
\* object are stored all the same
C23_StoredAfter400 ==
    /\ last.ep = "uploadTrack"
    /\ ~last.in.body.ok
    /\ Status(last) = 400
    /\ Returned("UploadAudioFile", TRUE) /\ Returned("AddTrack", TRUE)
    /\ DOMAIN db.songs # DOMAIN last.before.songs
    /\ db.files # last.before.files

\* no goroutine is in the middle of a request
AllCompleted == \A g \in Goroutines : goroutines[g].pc \in {"idle", "done"}

\* C24: when a DELETE /track/{T} and the POST /playlist/{P}/track/{T} requests
\* running beside it have all completed, without storage failures, no playlist
\* refers to a track that is not stored, however their steps interleaved.
C24_NoDanglingReference ==
    AllCompleted =>
        \A p \in DOMAIN db.playlists :
            \A i \in 1..Len(db.playlists[p].Tracks) :
                db.playlists[p].Tracks[i] \in DOMAIN db.songs

\* the POST found the track, the DELETE then ran from its first step to its
\* last, the POST pushed the id: both are answered 200 and the playlist holds
\* the id of the deleted track
C24_AddedAfterDelete ==
    /\ AllCompleted
    /\ \E g, h \in Goroutines :
          /\ goroutines[g].ep = "deleteTrack" /\ goroutines[g].status = 200
          /\ goroutines[h].ep = "addTrackToPlaylist" /\ goroutines[h].status = 200
          /\ goroutines[h].found = 1
          /\ goroutines[h].id = goroutines[g].id
          /\ goroutines[g].id \notin DOMAIN db.songs
          /\ Contains(db.playlists[goroutines[h].pid].Tracks, goroutines[g].id)

\* C25: two concurrent UpdateTrack calls on one track that set different
\* fields both take effect: when both have returned without error the stored
\* track carries the new value of every field either of them set.
C25_BothTakeEffect ==
    \A g, h \in Goroutines :
        (/\ g # h
         /\ goroutines[g].ep = "updateTrack" /\ goroutines[h].ep = "updateTrack"
         /\ goroutines[g].pc = "done" /\ goroutines[h].pc = "done"
         /\ goroutines[g].status = 200 /\ goroutines[h].status = 200
         /\ goroutines[g].id = goroutines[h].id
         /\ SetFields(goroutines[g].updatedTrack)
               \cap SetFields(goroutines[h].updatedTrack) = {}) =>
            \A f \in SetFields(goroutines[g].updatedTrack)
                       \cup SetFields(goroutines[h].updatedTrack) :
                db.songs[goroutines[g].id][f] = NewValues[f]

\* one call set only the name, the other only the artist, both returned nil,
\* and the stored track has the new artist and the old name
C25_LostUpdate ==
    \E g, h \in Goroutines :
        /\ goroutines[g].pc = "done" /\ goroutines[g].status = 200
        /\ goroutines[h].pc = "done" /\ goroutines[h].status = 200
        /\ goroutines[g].updatedTrack = Sets({"Name"})
        /\ goroutines[h].updatedTrack = Sets({"Artist"})
        /\ db.songs[goroutines[g].id].Name = "Unknown"
        /\ db.songs[goroutines[g].id].Artist = "a"

\* C26: media requests served concurrently do not interfere: the audio
\* bytes a POST /youtube/track stores are the conversion of the video that
\* same request fetched, however the steps on video.mp4 and video.mp3
\* interleave.
C26_OwnAudio ==
    \A g \in Goroutines :
        (/\ goroutines[g].ep = "uploadTrackFromYoutubeLink"
         /\ goroutines[g].pc \in {"UploadAudioFile", "done"}
         /\ goroutines[g].audioBytes # NoBytes) =>
            goroutines[g].audioBytes = Converted(<<goroutines[g].video>>)

\* two POST /youtube/track for different videos are both answered 200, and
\* one of them has stored the conversion of the other's video
C26_OthersAudio ==
    \E g, h \in Goroutines :
        /\ goroutines[g].ep = "uploadTrackFromYoutubeLink"
        /\ goroutines[h].ep = "uploadTrackFromYoutubeLink"
        /\ goroutines[g].video # goroutines[h].video
        /\ goroutines[g].pc = "done" /\ goroutines[g].status = 200
        /\ goroutines[h].pc = "done" /\ goroutines[h].status = 200
        /\ goroutines[g].audioBytes = Converted(<<goroutines[h].video>>)

\* C27: every handler invocation writes exactly one response, one status
\* and one body; after an error response nothing more is written.
C27_OneResponse ==
    last.ep # "none" =>
        /\ Len(last.writes) = 1
        /\ last.writes[1].body # "none"

\* POST /track whose body does not decode: the error response with 400 is
\* followed by a success response with 200
C27_SecondResponse ==
    /\ last.ep = "uploadTrack"
    /\ ~last.in.body.ok
    /\ Len(last.writes) = 2
    /\ last.writes[1] = respondWithError(StatusBadRequest, MsgBadBody)
    /\ last.writes[2] = respondWithSuccess(StatusOK)

\* C28: every request that passes authentication ends with a response whose
\* status is 200, 400, 401 or 500; no handler aborts without responding.
C28_AlwaysResponds ==
    (last.ep # "none" /\ ~last.tokenErr.isErr /\ ~last.validateErr.isErr) =>
        /\ ~last.panicked
        /\ Status(last) \in {200, 400, 401, 500}

\* GET /track/{id} with a well-formed id that no track has: GetTracks returns
\* an empty list and no error, the handler indexes tracks[0] and aborts
C28_AbortedWithoutResponse ==
    /\ last.ep = "getTrackAudio"
    /\ last.in.id.wellFormed
    /\ last.in.id.oid \notin DOMAIN last.before.songs
    /\ Returned("GetTracks", TRUE)
    /\ last.panicked
    /\ last.writes = <<>>

\* C29: when no upload is in progress every stored audio object is the
\* audio of exactly one stored track; an upload that fails after
\* UploadAudioFile leaves no audio object behind.
C29_NoOrphanAudio ==
    /\ \A f \in db.files :
          Cardinality({t \in DOMAIN db.songs : db.songs[t].AudioFileID = f}) = 1
    /\ (last.ep \in {"uploadTrack", "uploadAudioBytes", "uploadTrackFromYoutubeLink"}
          /\ Returned("UploadAudioFile", TRUE) /\ Status(last) # 200) =>
            db.files = last.before.files /\ db.chunks = last.before.chunks

\* POST /track: UploadAudioFile stored the audio, AddTrack failed, the answer
\* is 500 and the audio object stays, with no track referring to it
C29_OrphanAudio ==
    /\ last.ep = "uploadTrack"
    /\ Returned("UploadAudioFile", TRUE)
    /\ Returned("AddTrack", FALSE)
    /\ Status(last) = 500
    /\ \E f \in db.files :
          /\ f \notin last.before.files
          /\ \A t \in DOMAIN db.songs : db.songs[t].AudioFileID # f

\* C30: a track update changes neither the identifier nor the audio
\* reference of the track, whatever id and audioFile the body carries; it
\* changes no other track and no playlist; and an update for an id that no
\* track has is answered with an error and creates no track.
C30_UpdateKeepsIdentity ==
    last.ep = "updateTrack" =>
        /\ DOMAIN db.songs = DOMAIN last.before.songs
        /\ \A t \in DOMAIN db.songs :
              /\ db.songs[t].ID = t
              /\ db.songs[t].AudioFileID = last.before.songs[t].AudioFileID
              /\ t # last.in.id.oid => db.songs[t] = last.before.songs[t]
        /\ db.playlists = last.before.playlists
        /\ db.files = last.before.files /\ db.chunks = last.before.chunks
        /\ (Called("UpdateTrack") /\ last.in.id.oid \notin DOMAIN last.before.songs) =>
              /\ Returned("UpdateTrack", FALSE)
              /\ Status(last) = 500
              /\ db = last.before

\* the body names another track's id and another audio file; the update is
\* answered 200 and has changed the name of the track of the path only
C30_Witness ==
    /\ last.ep = "updateTrack"
    /\ Status(last) = 200
    /\ last.in.id.oid = Oid("t", 1)
    /\ last.in.body.track.ID = Oid("t", 2)
    /\ last.in.body.track.AudioFileID = Oid("f", 2)
    /\ Oid("t", 2) \in DOMAIN db.songs
    /\ db.songs[Oid("t", 1)].Name = "n"
    /\ last.before.songs[Oid("t", 1)].Name = "Unknown"
    /\ DOMAIN db.playlists # {}

====
